---------------------------- MODULE Spec2Model ----------------------------
(***************************************************************************)
(* npm-stats-comparator: the pipeline controller (model.Update), the       *)
(* release range fetcher (GetGitHubReleases), the downloader and the       *)
(* analyzer, as state machines.                                            *)
(*                                                                         *)
(*   Spec       the whole program: model.Update driven by the messages of  *)
(*              the commands it launched, each command ending as its code  *)
(*              in releases.go ends.                                       *)
(*   SpecUpdate the same controller when the existence check is the plain  *)
(*              HTTP one (which can report exists=false) and the range     *)
(*              fetch may send any value of its message type.              *)
(*   SpecFetch  GetGitHubReleases alone, one loop iteration per step, on   *)
(*              every listing of a bounded universe of releases.           *)
(***************************************************************************)
EXTENDS Integers, Sequences, FiniteSets, TLC

VARIABLES
    m,          \* the controller's model struct (model.go)
    cmds,       \* the commands launched by Update and still running
    proc,       \* the process: "running", "exit1" (os.Exit(1)), "quit" (tea.Quit)
    fs,         \* the extraction root: the release directories in it
    remove,     \* the -remove flag
    hist,       \* history: the completion events Update has handled so far
    gf,         \* the frame of one GetGitHubReleases call (locals of the closure)
    dl,         \* the frame of one DownloadGitHubRelease call: the URL derivation
    az,         \* the frame of one AnalyzeRelease call: the walk of the directory
    cl,         \* the frame of one CountLines call: the buffer and the count
    ex          \* the frame of one DoesGitHubReleaseExist call: request and response

\* The variables of the controller and of its surroundings
ctl == <<m, cmds, proc, fs, remove, hist>>

-----------------------------------------------------------------------------
(* Bounds *)

\* Page size of the listing requests; stands for perPage (100 in the code).
PerPage == 2
\* Longest listing the hosting API holds.
MaxListing == 4
\* The page counter saturates here (page++ is unbounded in the code).
MaxPage == 4

-----------------------------------------------------------------------------
(* Releases, tags and exclusion patterns *)

\* release.GetTagName() == nil
NilTag == "<nil>"

Rel(t, c) == [tag |-> t, created |-> c]

\* The releases the hosting API may list: a duplicate tag (v1 twice),
\* equal creation times (v3 and the second v1; v2, v2-rc and the untagged
\* one) and a release without tag name.
Universe ==
    { Rel("v1", 1), Rel("v2", 2), Rel("v2-rc", 2), Rel("v3", 3),
      Rel("v1", 3), Rel(NilTag, 2) }

\* Exclusion patterns: "" (none), two that compile, one that does not.
BadRegex == "("
Regexes == {"", "rc", "^v1$", BadRegex}

\* Mutant of Compiles: every pattern is taken as compiled
Compiles_Any(regex) == TRUE

\* regexp.Compile(regex) succeeds
Compiles(regex) == regex # BadRegex

\* compile.MatchString(tag)
MatchString(regex, tag) ==
    CASE regex = "rc"   -> tag \in {"v2-rc"}
      [] regex = "^v1$" -> tag \in {"v1"}
      [] OTHER          -> FALSE

\* Listings of the API: sequences of distinct releases, in any order.
Listings ==
    UNION { { s \in [1..n -> Universe] :
                \A i, j \in 1..n : i # j => s[i] # s[j] } : n \in 0..MaxListing }

Min(a, b) == IF a < b THEN a ELSE b

\* The page `page` (1-based) of the listing, as the API returns it; a page
\* past the end is empty.
ApiPage(listing, page) ==
    SubSeq(listing, (page - 1) * PerPage + 1, Min(page * PerPage, Len(listing)))

\* Number of non-empty pages
NumPages(listing) == (Len(listing) + PerPage - 1) \div PerPage

-----------------------------------------------------------------------------
(* fetchReleases: the sort of one page *)

\* Mutant of SortLess: the arguments of cmp.Compare swapped (oldest first)
SortLess_Ascending(a, b) == a.created < b.created

\* cmp.Compare(b.GetCreatedAt().Unix(), a.GetCreatedAt().Unix()) < 0:
\* a sorts before b
SortLess(a, b) == b.created < a.created

\* Insert x after every element that does not sort after it (stable).
RECURSIVE InsertStable(_, _)
InsertStable(sorted, x) ==
    IF sorted = <<>> THEN <<x>>
    ELSE IF SortLess(x, Head(sorted)) THEN <<x>> \o sorted
    ELSE <<Head(sorted)>> \o InsertStable(Tail(sorted), x)

\* slices.SortStableFunc(releases, ...)
RECURSIVE SortStableFunc(_)
SortStableFunc(s) ==
    IF s = <<>> THEN <<>>
    ELSE InsertStable(SortStableFunc(SubSeq(s, 1, Len(s) - 1)), s[Len(s)])

\* fetchReleases() on success
fetchReleases(listing, page) == SortStableFunc(ApiPage(listing, page))

-----------------------------------------------------------------------------
(* GetGitHubReleases: the scan loop *)

\* Mutant of ScanBody: without the `break` once both boundaries are found
ScanBody_NoBreak(s, release, from, to, regex) ==
    IF release.tag = NilTag THEN s
    ELSE IF regex # "" /\ MatchString(regex, release.tag) THEN s
    ELSE LET ff == s.foundFrom \/ release.tag = from
             ft == s.foundTo \/ (release.tag # from /\ release.tag = to)
         IN  IF ~ff /\ ~ft
             THEN s
             ELSE [s EXCEPT !.foundFrom = ff, !.foundTo = ft,
                            !.releases = Append(s.releases, release)]

\* Mutant of ScanBody: only the boundary releases are appended
ScanBody_OnlyBoundaries(s, release, from, to, regex) ==
    IF release.tag = NilTag THEN s
    ELSE IF regex # "" /\ MatchString(regex, release.tag) THEN s
    ELSE IF s.foundFrom /\ s.foundTo THEN [s EXCEPT !.brk = TRUE]
    ELSE LET ff == s.foundFrom \/ release.tag = from
             ft == s.foundTo \/ (release.tag # from /\ release.tag = to)
         IN  [s EXCEPT !.foundFrom = ff, !.foundTo = ft,
                       !.releases = IF release.tag \in {from, to}
                                    THEN Append(@, release) ELSE @]

\* Mutant of ScanBody: the tag `to` is recognised only once `from` was found
ScanBody_FromFirst(s, release, from, to, regex) ==
    IF release.tag = NilTag THEN s
    ELSE IF regex # "" /\ MatchString(regex, release.tag) THEN s
    ELSE IF s.foundFrom /\ s.foundTo THEN [s EXCEPT !.brk = TRUE]
    ELSE LET ff == s.foundFrom \/ release.tag = from
             ft == s.foundTo \/ (s.foundFrom /\ release.tag # from /\ release.tag = to)
         IN  IF ~ff /\ ~ft
             THEN s
             ELSE [s EXCEPT !.foundFrom = ff, !.foundTo = ft,
                            !.releases = Append(s.releases, release)]

\* The body of `for _, release := range fetchedReleases` on the scan state
\* s = [releases, foundFrom, foundTo, brk]; brk is the `break`.
ScanBody(s, release, from, to, regex) ==
    IF release.tag = NilTag THEN s
    ELSE IF regex # "" /\ MatchString(regex, release.tag) THEN s
    ELSE IF s.foundFrom /\ s.foundTo THEN [s EXCEPT !.brk = TRUE]
    ELSE LET ff == s.foundFrom \/ release.tag = from
             ft == s.foundTo \/ (release.tag # from /\ release.tag = to)
         IN  IF ~ff /\ ~ft
             THEN s
             ELSE [s EXCEPT !.foundFrom = ff, !.foundTo = ft,
                            !.releases = Append(s.releases, release)]


\* The scan state at the start of GetGitHubReleases' closure
ScanInit == [releases |-> <<>>, foundFrom |-> FALSE, foundTo |-> FALSE, brk |-> FALSE]

\* The inner loop over one fetched page, from its i-th release on
RECURSIVE ScanPage(_, _, _, _, _, _)
ScanPage(s, fetched, i, from, to, regex) ==
    IF i > Len(fetched) \/ s.brk THEN s
    ELSE ScanPage(ScanBody(s, fetched[i], from, to, regex), fetched, i + 1,
                  from, to, regex)

\* Mutant of ScanLoop: the loop ends after the last page and returns what
\* it has collected
RECURSIVE ScanLoop_EndsOnLastPage(_, _, _, _, _, _)
ScanLoop_EndsOnLastPage(s, listing, page, from, to, regex) ==
    LET s1 == ScanPage([s EXCEPT !.brk = FALSE], fetchReleases(listing, page), 1,
                       from, to, regex)
    IN  IF (s1.foundFrom /\ s1.foundTo) \/ page >= NumPages(listing)
        THEN [kind |-> "ok", releases |-> s1.releases]
        ELSE ScanLoop_EndsOnLastPage(s1, listing, page + 1, from, to, regex)

\* The outer `for` from page `page` on, when no request fails.  "ok": the
\* closure returns gitReleasesDownloadSuccessMsg(releases); "loop": every
\* further page is empty and a boundary is still missing, so the loop never
\* ends and no message is ever sent.
RECURSIVE ScanLoop(_, _, _, _, _, _)
ScanLoop(s, listing, page, from, to, regex) ==
    LET s1 == ScanPage([s EXCEPT !.brk = FALSE], fetchReleases(listing, page), 1,
                       from, to, regex)
    IN  IF s1.foundFrom /\ s1.foundTo
        THEN [kind |-> "ok", releases |-> s1.releases]
        ELSE IF page >= NumPages(listing)
        THEN [kind |-> "loop", releases |-> <<>>]
        ELSE ScanLoop(s1, listing, page + 1, from, to, regex)

\* What a GetGitHubReleases command delivers when no request fails
GetGitHubReleases(listing, from, to, regex) ==
    IF regex # "" /\ ~Compiles(regex)
    THEN [kind |-> "err", releases |-> <<>>]
    ELSE ScanLoop(ScanInit, listing, 1, from, to, regex)

-----------------------------------------------------------------------------
(* GetGitHubReleases step by step (SpecFetch) *)

GfIdle == [pc |-> "idle"]
DlIdle == [pc |-> "idle"]
AzIdle == [pc |-> "idle"]
ClIdle == [pc |-> "idle"]
ExIdle == [pc |-> "idle"]

\* The (from, to) pairs of the calls
Ranges == { <<"v1", "v3">>, <<"v3", "v1">>, <<"v1", "v1">> }

GfCall(listing, from, to, regex) ==
    [ pc |-> "call", listing |-> listing, from |-> from, to |-> to,
      regex |-> regex, page |-> 1, fetched |-> <<>>, idx |-> 1,
      releases |-> <<>>, foundFrom |-> FALSE, foundTo |-> FALSE,
      requests |-> 0 ]

\* GetGitHubReleases(...) up to the returned closure: regexp.Compile
FetchCompile ==
    /\ gf.pc = "call"
    /\ gf' = [gf EXCEPT !.pc = IF gf.regex # "" /\ ~Compiles(gf.regex)
                                 THEN "err" ELSE "fetch"]
    /\ UNCHANGED <<ctl, dl, az, cl, ex>>

\* fetchedReleases, err := fetchReleases(): one request for page gf.page,
\* which fails (errMsg) or returns the sorted page
FetchPage ==
    /\ gf.pc = "fetch"
    /\ \E failed \in BOOLEAN :
         gf' = IF failed
               THEN [gf EXCEPT !.pc = "err", !.requests = Min(@ + 1, MaxPage + 1)]
               ELSE [gf EXCEPT !.pc = "scan",
                               !.requests = Min(@ + 1, MaxPage + 1),
                               !.fetched = fetchReleases(gf.listing, gf.page),
                               !.idx = 1]
    /\ UNCHANGED <<ctl, dl, az, cl, ex>>

\* One iteration of `for _, release := range fetchedReleases`
FetchScan ==
    /\ gf.pc = "scan"
    /\ gf.idx <= Len(gf.fetched)
    /\ LET s  == [releases |-> gf.releases, foundFrom |-> gf.foundFrom,
                  foundTo |-> gf.foundTo, brk |-> FALSE]
           s1 == ScanBody(s, gf.fetched[gf.idx], gf.from, gf.to, gf.regex)
       IN  gf' = [gf EXCEPT !.releases = s1.releases,
                            !.foundFrom = s1.foundFrom,
                            !.foundTo = s1.foundTo,
                            !.idx = IF s1.brk THEN Len(gf.fetched) + 1 ELSE @ + 1]
    /\ UNCHANGED <<ctl, dl, az, cl, ex>>

\* After the inner loop: return the releases when both boundaries were
\* found, else page++ and fetch again
FetchPageEnd ==
    /\ gf.pc = "scan"
    /\ gf.idx > Len(gf.fetched)
    /\ gf' = IF gf.foundFrom /\ gf.foundTo
             THEN [gf EXCEPT !.pc = "done"]
             ELSE [gf EXCEPT !.pc = "fetch", !.page = Min(@ + 1, MaxPage)]
    /\ UNCHANGED <<ctl, dl, az, cl, ex>>

-----------------------------------------------------------------------------
(* The controller: types (main.go, model.go) *)

StateInit == 0
StateChecking == 1
StateFetching == 2
StateDownloadExtract == 3
StateAnalyzing == 4
StateSummary == 5

\* A nil pointer (m.list)
Nil == <<>>

\* An error value; NoErr is the nil error
Err(kind, release, repo) == [kind |-> kind, release |-> release, repo |-> repo]
NoErr == Err("nil", "", "")

\* AnalysisResult; its zero value fills a freshly made slice
Analysis(tag, lines, files, tar, dir) ==
    [ releaseTag |-> tag, totalLines |-> lines, totalFiles |-> files,
      tarSize |-> tar, totalDirSize |-> dir ]
ZeroAnalysis == Analysis("", 0, 0, 0, 0)

\* A command in flight. i tells the commands of one batch apart.
Cmd(op, i, release) == [op |-> op, i |-> i, release |-> release]
FatalErrCmd == Cmd("fatalErr", 0, "")
NoCmd == Cmd("key", 0, "")

\* What a handler of Update returns: the new model, the commands of the
\* returned tea.Cmd, whether control reaches the code after the switch
\* (it does not after an early `return`), the slot of m.data.analysis the
\* handler wrote (0: none) and whether it removed the extraction root.
Ret(mm, launched, tail) ==
    [m |-> mm, cmds |-> launched, tail |-> tail, wrote |-> 0, removed |-> FALSE]

\* Five releases of one repository, oldest first: the boundaries v1 and v3
\* and three releases strictly between them
Chronological ==
    << Rel("v1", 1), Rel("v2", 2), Rel("v2.1", 3), Rel("v2.2", 4), Rel("v3", 5) >>

\* The tags a release directory or a map key can have
Tags ==
    ({r.tag : r \in Universe} \ {NilTag})
        \cup {Chronological[i].tag : i \in 1..Len(Chronological)}

\* m.tarSize: a Go map from tag to size; NoSize marks a missing key
NoSize == -1
EmptyTarSize == [t \in Tags \cup {""} |-> NoSize]

-----------------------------------------------------------------------------
(* The controller: model.Update, one operator per case of the switch *)

\* DoesGitHubReleaseExist(...) twice, as one tea.Batch
ExistenceChecks(d) ==
    { Cmd("exists", 1, d.firstRelease), Cmd("exists", 2, d.secondRelease) }

\* case model: the first message, sent by Init()
UpdateModel(mm) ==
    IF mm.state = StateInit /\ Len(mm.inputs) = 0
    THEN Ret([mm EXCEPT !.state = @ + 1], ExistenceChecks(mm.data), FALSE)
    ELSE Ret(mm, {}, TRUE)

\* strings.Count(s, "/") on the strings of the model
CountSlash(str) ==
    CASE str = "o/r" -> 1
      [] str = "a/b/c" -> 2
      [] OTHER -> 0

\* case tea.KeyMsg, Enter on the submit button (state Init): vals[k] is
\* m.inputs[k-1].Value()
UpdateSubmit(mm, vals) ==
    LET d0 == mm.data
        fillRepo == d0.ghRepo = ""
        d1 == IF fillRepo THEN [d0 EXCEPT !.ghRepo = vals[1]] ELSE d0
        badRepo == fillRepo /\ (d1.ghRepo = "" \/ CountSlash(d1.ghRepo) # 1)
        i1 == IF fillRepo THEN 1 ELSE 0
        fillToken == d1.ghToken = ""
        d2 == IF fillToken THEN [d1 EXCEPT !.ghToken = vals[i1 + 1]] ELSE d1
        i2 == IF fillToken THEN i1 + 1 ELSE i1
        fillFirst == d2.firstRelease = ""
        d3 == IF fillFirst THEN [d2 EXCEPT !.firstRelease = vals[i2 + 1]] ELSE d2
        badFirst == fillFirst /\ d3.firstRelease = ""
        i3 == IF fillFirst THEN i2 + 1 ELSE i2
        fillSecond == d3.secondRelease = ""
        d4 == IF fillSecond THEN [d3 EXCEPT !.secondRelease = vals[i3 + 1]] ELSE d3
        badSecond == fillSecond /\ d4.secondRelease = ""
        i4 == IF fillSecond THEN i3 + 1 ELSE i3
        d5 == IF d4.ignoreRegex = ""
              THEN [d4 EXCEPT !.ignoreRegex = vals[i4 + 1]] ELSE d4
    IN  IF badRepo
        THEN Ret([mm EXCEPT !.data = d1, !.err = Err("repo format", "", "")], {}, TRUE)
        ELSE IF badFirst
        THEN Ret([mm EXCEPT !.data = d3, !.err = Err("base release", "", "")], {}, TRUE)
        ELSE IF badSecond
        THEN Ret([mm EXCEPT !.data = d4, !.err = Err("release to compare", "", "")],
                 {}, TRUE)
        ELSE Ret([mm EXCEPT !.data = d5, !.state = @ + 1], ExistenceChecks(d5), FALSE)

\* case tea.KeyMsg, Tab/ShiftTab/Enter/Up/Down elsewhere (state Init):
\* cycle the focus
UpdateFocus(mm, up) ==
    LET f == IF up THEN mm.focusIndex - 1 ELSE mm.focusIndex + 1
        g == IF f > Len(mm.inputs) THEN 0
             ELSE IF f < 0 THEN Len(mm.inputs) ELSE f
    IN  Ret([mm EXCEPT !.focusIndex = g], {}, FALSE)

\* Mutant of UpdateErrMsg: an error sends the controller back to Init
UpdateErrMsg_Reset(mm, e) ==
    Ret([mm EXCEPT !.err = e, !.state = StateInit], {}, TRUE)

\* case errMsg
UpdateErrMsg(mm, e) == Ret([mm EXCEPT !.err = e], {}, TRUE)

\* Mutant of BothExist: one confirmed release is enough
BothExist_One(count) == count >= 1

\* m.existingReleasesCount == 2
BothExist(count) == count = 2

\* Mutant of UpdateExists: the count is incremented whatever msg.exists is
UpdateExists_CountAll(mm, msg) ==
    LET n == mm.existingReleasesCount + 1
    IN  IF BothExist(n)
        THEN Ret([mm EXCEPT !.existingReleasesCount = n, !.state = @ + 1],
                 {Cmd("fetch", 0, "")}, FALSE)
        ELSE IF msg.exists
        THEN Ret([mm EXCEPT !.existingReleasesCount = n], {}, TRUE)
        ELSE Ret([mm EXCEPT !.existingReleasesCount = n,
                            !.err = Err("does not exist", msg.release, mm.data.ghRepo)],
                 {}, TRUE)

\* case gitReleaseExistsMsg
UpdateExists(mm, msg) ==
    IF msg.exists
    THEN LET n == mm.existingReleasesCount + 1
         IN  IF BothExist(n)
             THEN Ret([mm EXCEPT !.existingReleasesCount = n, !.state = @ + 1],
                      {Cmd("fetch", 0, "")}, FALSE)
             ELSE Ret([mm EXCEPT !.existingReleasesCount = n], {}, TRUE)
    ELSE Ret([mm EXCEPT !.err = Err("does not exist", msg.release, mm.data.ghRepo)],
             {}, TRUE)

\* One command per release with a tag name (the batch of the download and
\* of the analysis stage)
PerRelease(op, releases) ==
    { Cmd(op, i, releases[i].tag) : i \in {j \in 1..Len(releases) : releases[j].tag # NilTag} }

\* Mutant of UpdateReleases: the result sequence is made with the releases
UpdateReleases_Allocates(mm, msg) ==
    LET m1 == [mm EXCEPT !.data.releases = msg, !.state = @ + 1,
                         !.data.analysis = [i \in 1..Len(msg) |-> ZeroAnalysis]]
    IN  IF Len(msg) = 0
        THEN Ret([m1 EXCEPT !.err = Err("no releases found", "", "")], {}, TRUE)
        ELSE Ret(m1, PerRelease("download", msg), FALSE)

\* case gitReleasesDownloadSuccessMsg
UpdateReleases(mm, msg) ==
    LET m1 == [mm EXCEPT !.data.releases = msg, !.state = @ + 1]
    IN  IF Len(msg) = 0
        THEN Ret([m1 EXCEPT !.err = Err("no releases found", "", "")], {}, TRUE)
        ELSE Ret(m1, PerRelease("download", msg), FALSE)

\* Mutant of AllDownloaded: the comparison is off by one
AllDownloaded_OffByOne(progress, releases) == progress = Len(releases) - 1

\* Mutant of AllDownloaded: one completion more than there are releases
AllDownloaded_Beyond(progress, releases) == progress = Len(releases) + 1

\* m.downloadProgress == uint(len(m.data.releases))
AllDownloaded(progress, releases) == progress = Len(releases)

\* Mutant of UpdateDownloaded: the archive size is not kept
UpdateDownloaded_SizeDropped(mm, msg) ==
    LET m1 == [mm EXCEPT !.downloadProgress = @ + 1,
                         !.downloadCacheCount = IF msg.cached THEN @ + 1 ELSE @]
    IN  IF AllDownloaded(m1.downloadProgress, m1.data.releases)
        THEN Ret([m1 EXCEPT !.state = @ + 1],
                 PerRelease("analyze", m1.data.releases), FALSE)
        ELSE Ret(m1, {}, TRUE)

\* Mutant of UpdateDownloaded: the size is stored for a cache hit as well
UpdateDownloaded_CacheSized(mm, msg) ==
    LET m1 == [mm EXCEPT !.downloadProgress = @ + 1,
                         !.downloadCacheCount = IF msg.cached THEN @ + 1 ELSE @,
                         !.tarSize = [@ EXCEPT ![msg.release] = msg.tarSize]]
    IN  IF AllDownloaded(m1.downloadProgress, m1.data.releases)
        THEN Ret([m1 EXCEPT !.state = @ + 1],
                 PerRelease("analyze", m1.data.releases), FALSE)
        ELSE Ret(m1, {}, TRUE)

\* case gitReleaseDownloadedMsg
UpdateDownloaded(mm, msg) ==
    LET m1 == [mm EXCEPT !.downloadProgress = @ + 1,
                         !.downloadCacheCount = IF msg.cached THEN @ + 1 ELSE @,
                         !.tarSize = IF msg.cached THEN @
                                     ELSE [@ EXCEPT ![msg.release] = msg.tarSize]]
    IN  IF AllDownloaded(m1.downloadProgress, m1.data.releases)
        THEN Ret([m1 EXCEPT !.state = @ + 1],
                 PerRelease("analyze", m1.data.releases), FALSE)
        ELSE Ret(m1, {}, TRUE)

\* Mutant of IndexOfRelease: the result goes to the next free slot, in
\* arrival order
IndexOfRelease_Arrival(releases, tag) ==
    Cardinality({i \in 1..Len(m.data.analysis) :
                    m.data.analysis[i].releaseTag # ""}) + 1

\* The index (1-based; 0 for -1) of the first release tagged `tag`
IndexOfRelease(releases, tag) ==
    LET hits == {i \in 1..Len(releases) :
                    releases[i].tag # NilTag /\ releases[i].tag = tag}
    IN  IF hits = {} THEN 0 ELSE CHOOSE i \in hits : \A j \in hits : i <= j

\* Mutant of AreAllAnalysesDone: one filled slot is enough
AreAllAnalysesDone_Any(analysis) ==
    \E i \in 1..Len(analysis) : analysis[i].releaseTag # ""

\* areAllAnalysesDone: no slot with an empty releaseTag
AreAllAnalysesDone(analysis) ==
    \A i \in 1..Len(analysis) : analysis[i].releaseTag # ""

\* Mutant of ListItems: the last analysis is left out of the list
ListItems_DropLast(analysis) ==
    [ i \in 1..(Len(analysis) - 1) |->
        [ result |-> analysis[i],
          next |-> IF i > 1 THEN i - 1 ELSE 0,
          previous |-> IF i < Len(analysis) - 1 THEN i + 1 ELSE 0 ] ]

\* Mutant of ListItems: previous and next point the other way
ListItems_Swapped(analysis) ==
    [ i \in 1..Len(analysis) |->
        [ result |-> analysis[i],
          next |-> IF i < Len(analysis) THEN i + 1 ELSE 0,
          previous |-> IF i > 1 THEN i - 1 ELSE 0 ] ]

\* items[i] of the list: next is items[i-1], previous is items[i+1]
\* (positions; 0 is nil)
ListItems(analysis) ==
    [ i \in 1..Len(analysis) |->
        [ result |-> analysis[i],
          next |-> IF i > 1 THEN i - 1 ELSE 0,
          previous |-> IF i < Len(analysis) THEN i + 1 ELSE 0 ] ]

\* Mutant of UpdateAnalysisDone: a failed os.RemoveAll is not looked at
UpdateAnalysisDone_IgnoreRemoveError(mm, msg, rm, rmFails) ==
    LET a0 == IF Len(mm.data.analysis) = 0
              THEN [i \in 1..Len(mm.data.releases) |-> ZeroAnalysis]
              ELSE mm.data.analysis
        m0 == [mm EXCEPT !.data.analysis = a0]
        index == IndexOfRelease(mm.data.releases, msg.releaseTag)
        size == mm.tarSize[msg.releaseTag]
        a1 == [a0 EXCEPT ![index] =
                  IF size # NoSize THEN [msg EXCEPT !.tarSize = size] ELSE msg]
        m1 == [mm EXCEPT !.data.analysis = a1]
    IN  IF index = 0
        THEN Ret(m0, {}, TRUE)
        ELSE IF ~AreAllAnalysesDone(a1)
        THEN [Ret(m1, {}, TRUE) EXCEPT !.wrote = index]
        ELSE [Ret([m1 EXCEPT !.list = ListItems(a1), !.state = @ + 1], {}, TRUE)
                 EXCEPT !.wrote = index, !.removed = rm /\ ~rmFails]

\* Mutant of UpdateAnalysisDone: the extraction root is removed on every
\* analysis result, not only on the last
UpdateAnalysisDone_RemoveEarly(mm, msg, rm, rmFails) ==
    LET a0 == IF Len(mm.data.analysis) = 0
              THEN [i \in 1..Len(mm.data.releases) |-> ZeroAnalysis]
              ELSE mm.data.analysis
        m0 == [mm EXCEPT !.data.analysis = a0]
        index == IndexOfRelease(mm.data.releases, msg.releaseTag)
        size == mm.tarSize[msg.releaseTag]
        a1 == [a0 EXCEPT ![index] =
                  IF size # NoSize THEN [msg EXCEPT !.tarSize = size] ELSE msg]
        m1 == [mm EXCEPT !.data.analysis = a1]
    IN  IF index = 0
        THEN Ret(m0, {}, TRUE)
        ELSE IF ~AreAllAnalysesDone(a1)
        THEN [Ret(m1, {}, TRUE) EXCEPT !.wrote = index, !.removed = rm]
        ELSE IF rm /\ rmFails
        THEN [Ret([m1 EXCEPT !.err = Err("remove", "", "")], {}, TRUE)
                 EXCEPT !.wrote = index]
        ELSE [Ret([m1 EXCEPT !.list = ListItems(a1), !.state = @ + 1], {}, TRUE)
                 EXCEPT !.wrote = index, !.removed = rm]

\* case analysisDoneMsg; rmFails: os.RemoveAll(*extractionDir) fails
UpdateAnalysisDone(mm, msg, rm, rmFails) ==
    LET a0 == IF Len(mm.data.analysis) = 0
              THEN [i \in 1..Len(mm.data.releases) |-> ZeroAnalysis]
              ELSE mm.data.analysis
        m0 == [mm EXCEPT !.data.analysis = a0]
        index == IndexOfRelease(mm.data.releases, msg.releaseTag)
        size == mm.tarSize[msg.releaseTag]
        a1 == [a0 EXCEPT ![index] =
                  IF size # NoSize THEN [msg EXCEPT !.tarSize = size] ELSE msg]
        m1 == [mm EXCEPT !.data.analysis = a1]
    IN  IF index = 0
        THEN Ret(m0, {}, TRUE)
        ELSE IF ~AreAllAnalysesDone(a1)
        THEN [Ret(m1, {}, TRUE) EXCEPT !.wrote = index]
        ELSE IF rm /\ rmFails
        THEN [Ret([m1 EXCEPT !.err = Err("remove", "", "")], {}, TRUE)
                 EXCEPT !.wrote = index]
        ELSE [Ret([m1 EXCEPT !.list = ListItems(a1), !.state = @ + 1], {}, TRUE)
                 EXCEPT !.wrote = index, !.removed = rm]

\* Mutant of AfterSwitch: a recorded error sends nothing
AfterSwitch_NoFatalErr(r) == r.cmds

\* ListItem.Title: diffWithPrevious of the i-th item, which has a previous
DiffWithPrevious(items, i) ==
    items[i].result.totalLines - items[items[i].previous].result.totalLines

\* ListItem.Title: diffWithFirst of the item without next: `first` is the
\* end of the chain of previous
RECURSIVE FirstOf(_, _)
FirstOf(items, i) ==
    IF items[i].previous = 0 THEN i ELSE FirstOf(items, items[i].previous)
DiffWithFirst(items, i) ==
    items[i].result.totalLines - items[FirstOf(items, i)].result.totalLines

\* The code after the switch: with a list, the message goes to the list;
\* else a recorded error sends fatalErr
AfterSwitch(r) ==
    IF ~r.tail THEN r.cmds
    ELSE IF r.m.list # Nil THEN r.cmds
    ELSE IF r.m.err # NoErr THEN r.cmds \cup {FatalErrCmd}
    ELSE r.cmds

-----------------------------------------------------------------------------
(* The program's start: flag.Parse and initialModel (main.go) *)

\* The command lines of the model: ghRepo, ghToken, firstRelease,
\* secondRelease, ignoreRegex as given by the flags ("" when absent)
Flags(repo, token, first, second, regex) ==
    [ ghRepo |-> repo, ghToken |-> token, firstRelease |-> first,
      secondRelease |-> second, ignoreRegex |-> regex ]

\* Command lines: everything given; everything given but the repository
\* malformed; the repository left to be asked for; as in the README (the
\* token and the pattern are asked for); everything asked for
AllGiven == Flags("o/r", "tok", "v1", "v3", "rc")
BadRepoGiven == Flags("bad", "tok", "v1", "v3", "rc")
RepoAsked == Flags("", "tok", "v1", "v3", "rc")
AsInReadme == Flags("o/r", "", "v1", "v3", "")
AllAsked == Flags("", "", "", "", "")

\* initialModel: one text input per flag left empty, in this order
InputFields(f) ==
    LET one(b, name) == IF b THEN <<name>> ELSE <<>>
    IN  one(f.ghRepo = "", "repo") \o one(f.ghToken = "", "token")
        \o one(f.firstRelease = "", "first") \o one(f.secondRelease = "", "second")
        \o one(f.ignoreRegex = "", "regex")

initialModel(f) ==
    [ state |-> StateInit,
      data |-> [ ghRepo |-> f.ghRepo, ghToken |-> f.ghToken,
                 firstRelease |-> f.firstRelease, secondRelease |-> f.secondRelease,
                 ignoreRegex |-> f.ignoreRegex, releases |-> <<>>, analysis |-> <<>> ],
      inputs |-> InputFields(f),
      focusIndex |-> 0,
      existingReleasesCount |-> 0,
      downloadProgress |-> 0,
      downloadCacheCount |-> 0,
      tarSize |-> EmptyTarSize,
      list |-> Nil,
      err |-> NoErr ]

\* What the user may have typed into the input of a field
Typed(field) ==
    CASE field = "repo"   -> {"", "bad", "o/r"}
      [] field = "token"  -> {"", "tok"}
      [] field = "first"  -> {"", "v1"}
      [] field = "second" -> {"", "v3"}
      [] field = "regex"  -> {"", "rc"}

\* The extraction root as earlier runs left it: empty; one release
\* extracted; one directory made by a download that failed
Dir(dirs, extracted) == [dirs |-> dirs, extracted |-> extracted]
InitialDirs == { Dir({}, {}), Dir({"v2"}, {"v2"}), Dir({"v3"}, {}) }

\* done: the commands whose success message Update handled; missing: the
\* existence checks that reported exists=false; fetches: the range fetches
\* launched; filled: the slots of m.data.analysis in the order written;
\* again: the download commands that called the downloader after an
\* earlier call for the same tag had ended with its completion message
HistInit ==
    [done |-> {}, missing |-> {}, fetches |-> 0, filled |-> <<>>, again |-> {}]

\* A start of the program: the command line, the extraction root, -remove
Start(f, dir, rm) == [flags |-> f, fs |-> dir, remove |-> rm]

Starts ==
    { Start(AllGiven, dir, rm) : dir \in InitialDirs, rm \in BOOLEAN }
    \cup { Start(f, Dir({}, {}), FALSE) : f \in {BadRepoGiven, RepoAsked} }

Init ==
    /\ \E st \in Starts :
         /\ m = initialModel(st.flags)
         /\ fs = st.fs
         /\ remove = st.remove
    /\ cmds = {Cmd("init", 0, "")}
    /\ proc = "running"
    /\ hist = HistInit
    /\ gf = GfIdle
    /\ dl = DlIdle
    /\ az = AzIdle
    /\ cl = ClIdle
    /\ ex = ExIdle

-----------------------------------------------------------------------------
(* The event loop: a command ends and Update handles its message *)

\* Update returned r for the message of command c (NoCmd: a key press)
Handle(c, r) ==
    /\ m' = r.m
    /\ cmds' = (cmds \ {c}) \cup AfterSwitch(r)

\* The history after command c ended, with success (ok) or not
Logged(c, ok, r) ==
    [ hist EXCEPT
        !.done = IF ok THEN @ \cup {c} ELSE @,
        !.fetches = @ + Cardinality({x \in r.cmds : x.op = "fetch"}),
        !.filled = IF r.wrote = 0 THEN @ ELSE Append(@, r.wrote) ]

\* Init()'s first command returns the model itself
InitMsg ==
    /\ proc = "running"
    /\ \E c \in cmds :
         /\ c.op = "init"
         /\ Handle(c, UpdateModel(m))
    /\ UNCHANGED <<proc, fs, remove, hist, gf, dl, az, cl, ex>>

\* Enter on the submit button
KeySubmit ==
    /\ proc = "running"
    /\ m.state = StateInit
    /\ m.focusIndex = Len(m.inputs)
    /\ \E vals \in [1..Len(m.inputs) -> UNION {Typed(f) : f \in {"repo", "token", "first", "second", "regex"}}] :
         /\ \A k \in 1..Len(m.inputs) : vals[k] \in Typed(m.inputs[k])
         /\ Handle(NoCmd, UpdateSubmit(m, vals))
    /\ UNCHANGED <<proc, fs, remove, hist, gf, dl, az, cl, ex>>

\* Tab, Shift+Tab, Up, Down, or Enter off the submit button
KeyFocus ==
    /\ proc = "running"
    /\ m.state = StateInit
    /\ \E up \in BOOLEAN : Handle(NoCmd, UpdateFocus(m, up))
    /\ UNCHANGED <<proc, fs, remove, hist, gf, dl, az, cl, ex>>

\* Ctrl+C or Esc: tea.Quit
KeyQuit ==
    /\ proc = "running"
    /\ proc' = "quit"
    /\ UNCHANGED <<m, cmds, fs, remove, hist, gf, dl, az, cl, ex>>

\* case fatalErr: os.Exit(1)
FatalErr ==
    /\ proc = "running"
    /\ FatalErrCmd \in cmds
    /\ proc' = "exit1"
    /\ UNCHANGED <<m, cmds, fs, remove, hist, gf, dl, az, cl, ex>>

-----------------------------------------------------------------------------
(* The commands of releases.go, as Update sees them end *)

\* The controller-side listings are kept shorter than the fetcher's own
MaxCtlListing == 3
CtlListings == {l \in Listings : Len(l) <= MaxCtlListing}

\* DoesGitHubReleaseExist (octokit): the request succeeds, and the command
\* sends gitReleaseExistsMsg{true, release}, or it fails (a 404 included),
\* and the command sends errMsg. Only real tags can be found.
DoesGitHubReleaseExist(release) ==
    IF release \in Tags THEN {"exists", "err"} ELSE {"err"}

\* The end of an existence check with outcome o, and Update on its message
ExistsEnds(c, o) ==
    LET r == CASE o = "exists" ->
                    UpdateExists(m, [exists |-> TRUE, release |-> c.release])
               [] o = "missing" ->
                    UpdateExists(m, [exists |-> FALSE, release |-> c.release])
               [] OTHER -> UpdateErrMsg(m, Err("api", "", ""))
    IN  /\ Handle(c, r)
        /\ hist' = [Logged(c, o = "exists", r) EXCEPT
                      !.missing = IF o = "missing" THEN @ \cup {c} ELSE @]

ExistsDone ==
    /\ proc = "running"
    /\ \E c \in cmds :
         /\ c.op = "exists"
         /\ \E o \in DoesGitHubReleaseExist(c.release) : ExistsEnds(c, o)
    /\ UNCHANGED <<proc, fs, remove, gf, dl, az, cl, ex>>

\* The end of the range fetch: errMsg (the pattern does not compile, or a
\* request failed), or the releases scanned out of some listing
FetchDone ==
    /\ proc = "running"
    /\ \E c \in cmds :
         /\ c.op = "fetch"
         /\ \E listing \in CtlListings, failed \in BOOLEAN :
              LET res == GetGitHubReleases(listing, m.data.firstRelease,
                                           m.data.secondRelease, m.data.ignoreRegex)
                  r == IF res.kind = "err"
                       THEN UpdateErrMsg(m, Err("regexp", "", ""))
                       ELSE IF failed
                       THEN UpdateErrMsg(m, Err("api", "", ""))
                       ELSE UpdateReleases(m, res.releases)
              IN  /\ failed \/ res.kind # "loop"
                  /\ Handle(c, r)
                  /\ hist' = Logged(c, res.kind = "ok" /\ ~failed, r)
    /\ UNCHANGED <<proc, fs, remove, gf, dl, az, cl, ex>>

\* The size of the archive of a release, as io.Copy counts it
TarBytes(tag) ==
    CASE tag = "v1" -> 21 [] tag = "v2" -> 22 [] tag = "v2-rc" -> 23
      [] tag = "v3" -> 24 [] tag = "v2.1" -> 25 [] tag = "v2.2" -> 26
      [] OTHER -> 20

\* Mutant of Stat: the directory is never found
Stat_Never(dir, release) == FALSE

\* os.Stat(dest) succeeds: the directory of the release is in the root
Stat(dir, release) == release \in dir.dirs

\* An earlier call of the downloader for the same tag has ended with its
\* completion message
Again(c) ==
    \E d \in hist.done :
        d.op \in {"download", "downloading"} /\ d.release = c.release

\* The history after the downloader was called by command c
Called(h, c) == [h EXCEPT !.again = IF Again(c) THEN @ \cup {c} ELSE @]

\* DownloadGitHubRelease up to the request: os.Stat finds the directory (a
\* cache hit, sent at once), or os.MkdirAll makes it or fails
DownloadStart ==
    /\ proc = "running"
    /\ \E c \in cmds :
         /\ c.op = "download"
         /\ IF Stat(fs, c.release)
            THEN LET r == UpdateDownloaded(m,
                              [release |-> c.release, tarSize |-> 0, cached |-> TRUE])
                 IN  /\ Handle(c, r)
                     /\ hist' = Called(Logged(c, TRUE, r), c)
                     /\ fs' = fs
            ELSE \E made \in BOOLEAN :
                   IF made
                   THEN /\ fs' = [fs EXCEPT !.dirs = @ \cup {c.release}]
                        /\ cmds' = (cmds \ {c}) \cup {Cmd("downloading", c.i, c.release)}
                        /\ hist' = Called(hist, c)
                        /\ m' = m
                   ELSE LET r == UpdateErrMsg(m, Err("mkdir", "", ""))
                        IN  /\ Handle(c, r)
                            /\ hist' = Called(Logged(c, FALSE, r), c)
                            /\ fs' = fs
    /\ UNCHANGED <<proc, remove, gf, dl, az, cl, ex>>

\* DownloadGitHubRelease from http.Get on: an error (transport, status,
\* Untar), or the archive is extracted and measured
DownloadFinish ==
    /\ proc = "running"
    /\ \E c \in cmds :
         /\ c.op = "downloading"
         /\ \E ok \in BOOLEAN :
              LET r == IF ok
                       THEN UpdateDownloaded(m, [release |-> c.release,
                                tarSize |-> TarBytes(c.release), cached |-> FALSE])
                       ELSE UpdateErrMsg(m, Err("download", "", ""))
              IN  /\ Handle(c, r)
                  /\ hist' = Logged(c, ok, r)
                  /\ fs' = IF ok THEN [fs EXCEPT !.extracted = @ \cup {c.release}]
                           ELSE fs
    /\ UNCHANGED <<proc, remove, gf, dl, az, cl, ex>>

\* The lines of the files of a release
LinesOf(tag) ==
    CASE tag = "v1" -> 10 [] tag = "v2" -> 12 [] tag = "v2-rc" -> 11
      [] tag = "v3" -> 15 [] tag = "v2.1" -> 17 [] tag = "v2.2" -> 9
      [] OTHER -> 1

\* AnalyzeRelease on success: the totals of the walk of root/tag (an empty
\* directory when the download never extracted into it)
AnalyzeRelease(dir, tag) ==
    IF tag \in dir.extracted
    THEN Analysis(tag, LinesOf(tag), 2, 0, 100 + LinesOf(tag))
    ELSE Analysis(tag, 0, 0, 0, 0)

\* The end of an analysis: errMsg (the walk failed), or analysisDoneMsg
AnalyzeDone ==
    /\ proc = "running"
    /\ \E c \in cmds :
         /\ c.op = "analyze"
         /\ \E ok \in BOOLEAN, rmFails \in BOOLEAN :
              LET r == IF ok /\ c.release \in fs.dirs
                       THEN UpdateAnalysisDone(m, AnalyzeRelease(fs, c.release),
                                               remove, rmFails)
                       ELSE UpdateErrMsg(m, Err("analysis", "", ""))
              IN  /\ Handle(c, r)
                  /\ hist' = Logged(c, ok /\ c.release \in fs.dirs, r)
                  /\ fs' = IF r.removed THEN Dir({}, {}) ELSE fs
    /\ UNCHANGED <<proc, remove, gf, dl, az, cl, ex>>

Next ==
    \/ InitMsg \/ KeySubmit \/ KeyFocus \/ KeyQuit \/ FatalErr
    \/ ExistsDone \/ FetchDone \/ DownloadStart \/ DownloadFinish \/ AnalyzeDone

vars == <<m, cmds, proc, fs, remove, hist, gf, dl, az, cl, ex>>

Spec == Init /\ [][Next]_vars

-----------------------------------------------------------------------------
(* The controller against every result its messages can carry (SpecUpdate) *)

\* DoesGitHubReleaseExist over plain HTTP: 200 is exists=true, 403 and a
\* failed request are errMsg, every other status is exists=false
DoesGitHubReleaseExistHttp(release) == {"exists", "missing", "err"}

ExistsDoneHttp ==
    /\ proc = "running"
    /\ \E c \in cmds :
         /\ c.op = "exists"
         /\ \E o \in DoesGitHubReleaseExistHttp(c.release) : ExistsEnds(c, o)
    /\ UNCHANGED <<proc, fs, remove, gf, dl, az, cl, ex>>

\* The values of gitReleasesDownloadSuccessMsg ([]models.Releaseable): any
\* sequence of releases, the empty one, one with an empty tag name and one
\* without tag name included
MsgUniverse == { Rel("v1", 1), Rel("v3", 3), Rel("", 2), Rel(NilTag, 2) }
ReleasesMsgs ==
    UNION { { s \in [1..n -> MsgUniverse] :
                \A i, j \in 1..n : i # j => s[i] # s[j] } : n \in 0..MaxCtlListing }

\* The end of a range fetch that may send any such value
FetchDoneAny ==
    /\ proc = "running"
    /\ \E c \in cmds :
         /\ c.op = "fetch"
         /\ \E msg \in ReleasesMsgs, failed \in BOOLEAN :
              LET r == IF failed THEN UpdateErrMsg(m, Err("api", "", ""))
                       ELSE UpdateReleases(m, msg)
              IN  /\ Handle(c, r)
                  /\ hist' = Logged(c, ~failed, r)
    /\ UNCHANGED <<proc, fs, remove, gf, dl, az, cl, ex>>

NextUpdate ==
    \/ InitMsg \/ KeySubmit \/ KeyFocus \/ KeyQuit \/ FatalErr
    \/ ExistsDoneHttp \/ FetchDoneAny \/ DownloadStart \/ DownloadFinish
    \/ AnalyzeDone

SpecUpdate == Init /\ [][NextUpdate]_vars

-----------------------------------------------------------------------------
(* The range fetcher alone *)

InitFetch ==
    /\ gf \in { GfCall(l, r[1], r[2], re) : l \in Listings, r \in Ranges, re \in Regexes }
    /\ m = initialModel(Flags("", "", "", "", ""))
    /\ cmds = {}
    /\ proc = "running"
    /\ fs = Dir({}, {})
    /\ remove = FALSE
    /\ hist = HistInit
    /\ dl = DlIdle
    /\ az = AzIdle
    /\ cl = ClIdle
    /\ ex = ExIdle

NextFetch == FetchCompile \/ FetchPage \/ FetchScan \/ FetchPageEnd

SpecFetch == InitFetch /\ [][NextFetch]_vars

-----------------------------------------------------------------------------
(* Claims about the pipeline controller (Spec, SpecUpdate) *)

\* C1: in every run the state changes only by single steps along
\* Init -> Checking -> Fetching -> DownloadExtract -> Analyzing -> Summary:
\* it never decreases, never skips a state, never goes past Summary and so
\* never re-enters a state it has left.
C1_SingleSteps ==
    [][ \/ m'.state = m.state
        \/ m'.state = m.state + 1 /\ m'.state <= StateSummary ]_vars

\* A run that went through all six states, with three releases
C1_Witness ==
    /\ m.state = StateSummary
    /\ Len(m.data.releases) = 3
    /\ m.err = NoErr

\* The download of the i-th release reported its completion (a success or a
\* cache hit) and Update handled the message
DownloadReported(i) ==
    \E c \in hist.done : c.op \in {"download", "downloading"} /\ c.i = i

\* C2: the controller is in Analyzing (or beyond), or an analysis is
\* launched, only when a download completion message has been handled for
\* every release of the fetched sequence; failed downloads are not in
\* hist.done.
C2_AnalyzingAfterAllDownloads ==
    (m.state >= StateAnalyzing \/ \E c \in cmds : c.op = "analyze")
        => \A i \in 1..Len(m.data.releases) : DownloadReported(i)

\* Analyzing entered after a cache hit and two real downloads, the analyses
\* launched
C2_Witness ==
    /\ m.state = StateAnalyzing
    /\ Len(m.data.releases) = 3
    /\ m.downloadCacheCount = 1
    /\ m.downloadProgress = 3
    /\ Cardinality({c \in cmds : c.op = "analyze"}) = 3

\* The slot i of m.data.analysis was written by an analysisDoneMsg
SlotWrites(i) == Cardinality({k \in 1..Len(hist.filled) : hist.filled[k] = i})

\* C3: the controller is in Summary only when every slot of the result
\* sequence has been filled by an analysis completion message.
C3_SummaryAfterAllSlots ==
    m.state >= StateSummary
        => /\ Len(m.data.analysis) = Len(m.data.releases)
           /\ \A i \in 1..Len(m.data.releases) :
                /\ SlotWrites(i) >= 1
                /\ m.data.analysis[i].releaseTag # ""

\* Summary reached with the analyses arriving last release first
C3_Witness ==
    /\ m.state = StateSummary
    /\ hist.filled = <<3, 2, 1>>

\* C4: in Summary the final report has as many entries as the fetched
\* release sequence, and every slot was written by exactly one analysis
\* completion message.
C4_ReportComplete ==
    m.state >= StateSummary
        => /\ Len(m.list) = Len(m.data.releases)
           /\ \A i \in 1..Len(m.data.releases) : SlotWrites(i) = 1

\* A report of three entries, one of them of a cached release
C4_Witness ==
    /\ m.state = StateSummary
    /\ Len(m.list) = 3
    /\ m.downloadCacheCount = 1

\* C5: the i-th entry of the final report carries the tag of the i-th
\* release of the fetched sequence, whatever the arrival order of the
\* analysis completion messages was.
C5_ReportInReleaseOrder ==
    m.state >= StateSummary
        => /\ Len(m.list) = Len(m.data.releases)
           /\ \A i \in 1..Len(m.list) :
                m.list[i].result.releaseTag = m.data.releases[i].tag

\* The report of a run whose analyses arrived in the order 3, 1, 2
C5_Witness ==
    /\ m.state = StateSummary
    /\ hist.filled = <<3, 1, 2>>
    /\ \A i \in 1..3 : m.list[i].result.releaseTag = m.data.releases[i].tag

\* The i-th existence check (1: from, 2: to) reported exists=true
ExistsReported(i) == \E c \in hist.done : c.op = "exists" /\ c.i = i

\* C6: the controller is in Fetching (or beyond), or the range fetch is
\* launched, only after both existence checks reported exists=true, and the
\* range fetch is launched exactly once on that transition.
C6_FetchingAfterBothExist ==
    /\ (m.state >= StateFetching \/ hist.fetches > 0)
          => ExistsReported(1) /\ ExistsReported(2)
    /\ hist.fetches <= 1
    /\ (ExistsReported(1) /\ ExistsReported(2)) => hist.fetches = 1
    /\ \A c \in cmds : c.op = "fetch" => hist.fetches = 1

\* Fetching, the range fetch in flight
C6_Witness ==
    /\ m.state = StateFetching
    /\ Cmd("fetch", 0, "") \in cmds
    /\ m.existingReleasesCount = 2

\* C7: the step that handles an exists=false result records the error that
\* names the tag and the repository whose tags page is to be checked, and
\* from then on the controller is never in Fetching or beyond, whichever of
\* the two results came first.
C7_MissingTagAborts ==
    [][ /\ hist'.missing # hist.missing
            => \E c \in hist'.missing \ hist.missing :
                   m'.err = Err("does not exist", c.release, m.data.ghRepo)
        /\ hist'.missing # {} => m'.state <= StateChecking ]_vars

\* exists=true for one tag came first, exists=false for the other second
C7_Witness ==
    /\ hist.missing # {}
    /\ m.existingReleasesCount = 1
    /\ m.err.kind = "does not exist"
    /\ m.err.release = m.data.secondRelease

-----------------------------------------------------------------------------
(* Claims about the range fetcher (SpecFetch) *)

\* GetGitHubReleases returned gitReleasesDownloadSuccessMsg(gf.releases)
Returned == gf.pc = "done"

\* The page an index of the listing is served on
PageOf(i) == ((i - 1) \div PerPage) + 1

\* The API serves its pages newest first: no release of a later page is
\* newer than one of an earlier page
PagesNewestFirst(listing) ==
    \A i, j \in 1..Len(listing) :
        PageOf(i) < PageOf(j) => listing[i].created >= listing[j].created

\* C9 as claimed: the returned sequence is ordered oldest first (creation
\* times ascending), also across pages.
C9_OldestFirst ==
    Returned => \A i \in 1..(Len(gf.releases) - 1) :
                    gf.releases[i].created <= gf.releases[i + 1].created

\* C9 as amended: the returned sequence is ordered newest first: creation
\* times never increase along it, also across pages, when the API serves
\* its pages newest first.
C9_NewestFirst ==
    (Returned /\ PagesNewestFirst(gf.listing))
        => \A i \in 1..(Len(gf.releases) - 1) :
               gf.releases[i].created >= gf.releases[i + 1].created

\* A returned range of three releases over two pages, the first page not in
\* order as served
C9_Witness ==
    /\ Returned
    /\ PagesNewestFirst(gf.listing)
    /\ gf.page = 2
    /\ Len(gf.releases) = 3
    /\ gf.releases[1].created > gf.releases[2].created
    /\ gf.releases[2].created > gf.releases[3].created
    /\ ApiPage(gf.listing, 1) # fetchReleases(gf.listing, 1)

\* The release is one the scan may collect: tagged and not excluded
Scanned(release, regex) ==
    /\ release.tag # NilTag
    /\ ~(regex # "" /\ MatchString(regex, release.tag))

\* The releases in the order the fetcher scans them: page after page, each
\* page sorted
RECURSIVE ScanOrder(_, _)
ScanOrder(listing, page) ==
    IF page > NumPages(listing) THEN <<>>
    ELSE fetchReleases(listing, page) \o ScanOrder(listing, page + 1)

\* The first release in scan order that carries a boundary tag
FirstBoundary(listing, from, to, regex) ==
    LET order == ScanOrder(listing, 1)
        hits == {i \in 1..Len(order) :
                    Scanned(order[i], regex) /\ order[i].tag \in {from, to}}
    IN  order[CHOOSE i \in hits : \A j \in hits : i <= j]

\* C10 as claimed: when both boundary tags occur in the listing and neither
\* is excluded, the first element of the output is tagged `from` and the
\* last is tagged `to`.
C10_FirstFromLastTo ==
    ( /\ Returned
      /\ \E i \in 1..Len(gf.listing) : gf.listing[i].tag = gf.from
      /\ \E i \in 1..Len(gf.listing) : gf.listing[i].tag = gf.to
      /\ ~(gf.regex # "" /\ MatchString(gf.regex, gf.from))
      /\ ~(gf.regex # "" /\ MatchString(gf.regex, gf.to)) )
        => /\ gf.releases[1].tag = gf.from
           /\ gf.releases[Len(gf.releases)].tag = gf.to

\* C10 as amended: whenever the fetcher returns, the first and the last
\* element of its output carry the two boundary tags, one each; the first
\* element is the boundary release the scan meets first (`to` when the
\* newer boundary is `to`), the last element carries the other tag.
C10_BoundariesAtEnds ==
    Returned
        => /\ Len(gf.releases) >= 2
           /\ gf.releases[1] = FirstBoundary(gf.listing, gf.from, gf.to, gf.regex)
           /\ gf.releases[Len(gf.releases)].tag \in {gf.from, gf.to}
           /\ gf.releases[Len(gf.releases)].tag # gf.releases[1].tag

\* The usual call, from the older to the newer tag: the output starts with
\* `to` and ends with `from`
C10_Witness ==
    /\ Returned
    /\ gf.from = "v1" /\ gf.to = "v3"
    /\ Len(gf.releases) = 3
    /\ gf.releases[1].tag = gf.to
    /\ gf.releases[3].tag = gf.from

Max(a, b) == IF a > b THEN a ELSE b

\* The position of the first release tagged `tag` in a sequence (0: none)
FirstIndex(order, tag) ==
    LET hits == {i \in 1..Len(order) : order[i].tag = tag}
    IN  IF hits = {} THEN 0 ELSE CHOOSE i \in hits : \A j \in hits : i <= j

\* The releases lying in scan order between the first release tagged `from`
\* and the first release tagged `to`, both inclusive
Window(listing, from, to) ==
    LET order == ScanOrder(listing, 1)
        a == FirstIndex(order, from)
        b == FirstIndex(order, to)
    IN  SubSeq(order, Min(a, b), Max(a, b))

\* Every release of the listing has a tag name, as the hosting API exposes it
AllTagged(listing) == \A i \in 1..Len(listing) : listing[i].tag # NilTag

-----------------------------------------------------------------------------
(* Termination of the range fetcher *)

\* The closure of GetGitHubReleases runs in a goroutine of its own, which
\* keeps taking steps as long as it has one to take
SpecFetchFair == SpecFetch /\ WF_vars(NextFetch)

\* Both boundary tags occur in the listing
BothListed ==
    /\ \E i \in 1..Len(gf.listing) : gf.listing[i].tag = gf.from
    /\ \E i \in 1..Len(gf.listing) : gf.listing[i].tag = gf.to

\* The exclusion pattern compiles and matches the tag `from` or the tag `to`
ExcludedBoundary ==
    /\ gf.regex # "" /\ Compiles(gf.regex)
    /\ MatchString(gf.regex, gf.from) \/ MatchString(gf.regex, gf.to)

\* The command has sent its message: the releases or an errMsg
Ended == gf.pc \in {"done", "err"}

\* C12 as claimed: a call whose exclusion pattern matches a boundary tag
\* (both tags being listed) comes to return a result (or the errMsg of a
\* failed request), and a returned result is without the excluded boundary
\* release.
C12_ExcludedBoundaryReturns ==
    /\ [](Returned => \A i \in 1..Len(gf.releases) :
                         ~MatchString(gf.regex, gf.releases[i].tag))
    /\ (gf.pc = "call" /\ BothListed /\ ExcludedBoundary) ~> Ended


\* C13 as claimed: every call of the fetcher ends (the listings are finite:
\* the pages past the last release come back empty), also when a boundary
\* tag is not in the listing; it never requests a second empty page.
C13_FetchTerminates ==
    /\ [](gf.pc # "idle" => gf.requests <= NumPages(gf.listing) + 1)
    /\ (gf.pc = "call") ~> Ended

-----------------------------------------------------------------------------
(* Claims about the downloader *)

\* C14: a call of the downloader for a tag, made after an earlier call for
\* the same tag and the same root has ended with its completion message,
\* reports cached=true at once and issues no request: it is counted as a
\* cache hit and never becomes a download in progress.
C14_SecondCallCached ==
    \A c \in hist.again :
        /\ c \in hist.done
        /\ m.downloadCacheCount >= 1
        /\ \A x \in cmds \cup hist.done :
               ~(x.op = "downloading" /\ x.i = c.i)

\* The release list holds the tag v1 twice: the first call downloaded the
\* archive, the second one, made after it, was a cache hit
C14_Witness ==
    \E c \in hist.again, d \in hist.done :
        /\ c \in hist.done
        /\ d.op = "downloading" /\ d.release = c.release /\ d.i # c.i
        /\ m.downloadCacheCount = 1
        /\ m.tarSize[c.release] = TarBytes(c.release)

-----------------------------------------------------------------------------
(* DownloadGitHubRelease: the derivation of the registry URL (SpecUrl) *)

\* Tags are sequences of characters here: "@" and "/" as the code tests for
\* them, a letter and a digit for the rest
Letters == {"a", "1"}
Chars == {"@", "/"} \cup Letters
\* Longest tag
MaxTagLen == 7
TagStrings == UNION { [1..n -> Chars] : n \in 0..MaxTagLen }

\* strings.Index(s, ch) + 1 (0: ch is not in s)
IndexOf(s, ch) ==
    LET hits == {i \in 1..Len(s) : s[i] = ch}
    IN  IF hits = {} THEN 0 ELSE CHOOSE i \in hits : \A j \in hits : i <= j

\* strings.Split(s, ch)
RECURSIVE Split(_, _)
Split(s, ch) ==
    LET i == IndexOf(s, ch)
    IN  IF i = 0 THEN <<s>>
        ELSE <<SubSeq(s, 1, i - 1)>> \o Split(SubSeq(s, i + 1, Len(s)), ch)

\* strings.SplitN(s, ch, 2)
SplitN2(s, ch) ==
    LET i == IndexOf(s, ch)
    IN  IF i = 0 THEN <<s>>
        ELSE <<SubSeq(s, 1, i - 1), SubSeq(s, i + 1, Len(s))>>

\* strings.HasPrefix(s, ch), strings.Contains(s, ch)
HasPrefix(s, ch) == Len(s) > 0 /\ s[1] = ch
Contains(s, ch) == IndexOf(s, ch) # 0

\* strings.ReplaceAll(s, old, new)
ReplaceAll(s, old, new) == [i \in 1..Len(s) |-> IF s[i] = old THEN new ELSE s[i]]

\* Mutant of UrlName: the name of a scoped package stops at the "/"
UrlName_ScopeOnly(release) ==
    LET split == Split(release, "@")
    IN  IF Len(split) > 1 /\ HasPrefix(release, "@")
        THEN <<"@">> \o SplitN2(split[2], "/")[1]
        ELSE Split(release, "@")[1]

\* name: "@" + split[1] for a tag that starts with "@", else split[0]
\* (indices of the code, 0-based)
UrlName(release) ==
    LET split == Split(release, "@")
    IN  IF Len(split) > 1 /\ HasPrefix(release, "@")
        THEN <<"@">> \o split[2]
        ELSE Split(release, "@")[1]

\* Mutant of UrlPath: the "@" are kept
UrlPath_KeepAt(release) ==
    IF Contains(release, "/") THEN SplitN2(release, "/")[2] ELSE release

\* strings.ReplaceAll(pkg, "@", "-"), pkg being the tag after its first "/"
UrlPath(release) ==
    LET pkg == IF Contains(release, "/") THEN SplitN2(release, "/")[2] ELSE release
    IN  ReplaceAll(pkg, "@", "-")

\* fmt.Sprintf("https://registry.npmjs.com/%s/-/%s.tgz", name, path)
UrlOf(name, path) ==
    <<"https://registry.npmjs.com/">> \o name \o <<"/-/">> \o path \o <<".tgz">>

DlCall(release) == [pc |-> "call", release |-> release]

\* DownloadGitHubRelease from `name := ""` to the http.Get of the URL
DownloadUrl ==
    /\ dl.pc = "call"
    /\ dl' = [ pc |-> "get", release |-> dl.release,
               name |-> UrlName(dl.release), path |-> UrlPath(dl.release),
               url |-> UrlOf(UrlName(dl.release), UrlPath(dl.release)) ]
    /\ UNCHANGED <<ctl, gf, az, cl, ex>>

InitUrl ==
    /\ dl \in { DlCall(t) : t \in TagStrings }
    /\ m = initialModel(Flags("", "", "", "", ""))
    /\ cmds = {}
    /\ proc = "running"
    /\ fs = Dir({}, {})
    /\ remove = FALSE
    /\ hist = HistInit
    /\ gf = GfIdle
    /\ az = AzIdle
    /\ cl = ClIdle
    /\ ex = ExIdle

NextUrl == DownloadUrl

SpecUrl == InitUrl /\ [][NextUrl]_vars

\* The tag t is @scope/name@version: "/" at position i, the second "@" at
\* position j, letters and digits elsewhere
Scoped(t, i, j) ==
    /\ 2 < i /\ i + 1 < j /\ j < Len(t)
    /\ t[1] = "@" /\ t[i] = "/" /\ t[j] = "@"
    /\ \A k \in (1..Len(t)) \ {1, i, j} : t[k] \in Letters

\* C15 as claimed: for a tag @scope/name@version the derivation yields the
\* package name @scope and the path component name-version.
C15_ScopedNameIsScope ==
    dl.pc = "get"
        => \A i, j \in 1..Len(dl.release) :
               Scoped(dl.release, i, j)
                   => /\ dl.name = SubSeq(dl.release, 1, i - 1)
                      /\ dl.path = SubSeq(dl.release, i + 1, j - 1) \o <<"-">>
                                       \o SubSeq(dl.release, j + 1, Len(dl.release))

\* C15 as amended: for a tag @scope/name@version the derivation yields the
\* package name @scope/name and the path component name-version.
C15_ScopedNameIsScopeAndName ==
    dl.pc = "get"
        => \A i, j \in 1..Len(dl.release) :
               Scoped(dl.release, i, j)
                   => /\ dl.name = SubSeq(dl.release, 1, j - 1)
                      /\ dl.path = SubSeq(dl.release, i + 1, j - 1) \o <<"-">>
                                       \o SubSeq(dl.release, j + 1, Len(dl.release))

\* The tag @a/a1@1 gives the name @a/a1 and the path a1-1
C15_Witness ==
    /\ dl.pc = "get"
    /\ dl.release = <<"@", "a", "/", "a", "1", "@", "1">>
    /\ dl.name = <<"@", "a", "/", "a", "1">>
    /\ dl.path = <<"a", "1", "-", "1">>
    /\ dl.url = <<"https://registry.npmjs.com/", "@", "a", "/", "a", "1", "/-/",
                  "a", "1", "-", "1", ".tgz">>

\* The tag t is name@version: one "@", at position j, letters and digits
\* elsewhere
Unscoped(t, j) ==
    /\ 1 < j /\ j < Len(t)
    /\ t[j] = "@"
    /\ \A k \in (1..Len(t)) \ {j} : t[k] \in Letters

\* C16: for a tag name@version the derivation yields the package name
\* `name`, which is the substring before the first "@", and the path
\* component name-version, which is the tag with every "@" replaced by "-".
C16_UnscopedNameAndPath ==
    dl.pc = "get"
        => \A j \in 1..Len(dl.release) :
               Unscoped(dl.release, j)
                   => /\ dl.name = SubSeq(dl.release, 1, j - 1)
                      /\ j = IndexOf(dl.release, "@")
                      /\ dl.path = SubSeq(dl.release, 1, j - 1) \o <<"-">>
                                       \o SubSeq(dl.release, j + 1, Len(dl.release))
                      /\ dl.path = ReplaceAll(dl.release, "@", "-")

\* The tag a1@1a gives the name a1 and the path a1-1a
C16_Witness ==
    /\ dl.pc = "get"
    /\ dl.release = <<"a", "1", "@", "1", "a">>
    /\ dl.name = <<"a", "1">>
    /\ dl.path = <<"a", "1", "-", "1", "a">>

-----------------------------------------------------------------------------
(* AnalyzeRelease: the walk of the release directory (SpecAnalyze) *)

\* The languages of extToLang
Languages == {"JavaScript", "TypeScript", "Source Map", "JSON", "Markdown"}

\* lang, ok := extToLang[extension]; "" stands for ok = false
ExtToLang(extension) ==
    CASE extension \in {".js", ".cjs", ".mjs"} -> "JavaScript"
      [] extension = ".ts"   -> "TypeScript"
      [] extension = ".map"  -> "Source Map"
      [] extension = ".json" -> "JSON"
      [] extension = ".md"   -> "Markdown"
      [] OTHER -> ""

\* Mutant of LanguageOf: the default language is JavaScript
LanguageOf_DefaultJS(extension) ==
    IF ExtToLang(extension) # "" THEN ExtToLang(extension) ELSE "JavaScript"

\* language := "Other"; if lang, ok := extToLang[extension]; ok { language = lang }
LanguageOf(extension) ==
    IF ExtToLang(extension) # "" THEN ExtToLang(extension) ELSE "Other"

\* The entries WalkDir visits: directories, and files with their extension
\* (filepath.Ext: "" when the name has no dot), their lines (CountLines) and
\* their size (info.Size())
Entry(isDir, ext, lines) ==
    [isDir |-> isDir, ext |-> ext, lines |-> lines, size |-> 10 + 3 * lines]
Entries ==
    { Entry(FALSE, e, l) : e \in {".js", ".ts", ".css", ".JS", ""}, l \in {0, 2} }
    \cup { Entry(TRUE, "", 0) }

\* Most entries of a release directory
MaxEntries == 3
Trees == UNION { [1..n -> Entries] : n \in 0..MaxEntries }

\* linesByLanguage: a Go map; NoKey marks a key that is not in the map
NoKey == -1
Buckets == Languages \cup {"Other"}
EmptyBuckets == [b \in Buckets |-> NoKey]

AzCall(tree) ==
    [ pc |-> "walk", tree |-> tree, idx |-> 1, totalLines |-> 0, totalFiles |-> 0,
      totalDirSize |-> 0, linesByLanguage |-> EmptyBuckets ]

\* Mutant of AddLines: the bucket is overwritten, not added to
AddLines_Overwrite(buckets, language, lines) ==
    [buckets EXCEPT ![language] = lines]

\* linesByLanguage[language] += lines
AddLines(buckets, language, lines) ==
    [buckets EXCEPT ![language] = IF @ = NoKey THEN lines ELSE @ + lines]

\* Mutant of AnalyzeWalk: a file without extension is counted under "Other"
AnalyzeWalk_NoExtensionIsOther ==
    /\ az.pc = "walk"
    /\ az.idx <= Len(az.tree)
    /\ \E failed \in BOOLEAN :
         LET e == az.tree[az.idx]
         IN  az' = IF failed THEN [az EXCEPT !.pc = "err"]
                   ELSE IF e.isDir THEN [az EXCEPT !.idx = @ + 1]
                   ELSE [az EXCEPT
                           !.idx = @ + 1,
                           !.totalDirSize = @ + e.size,
                           !.totalLines = @ + e.lines,
                           !.totalFiles = @ + 1,
                           !.linesByLanguage =
                               AddLines(@, LanguageOf(e.ext), e.lines)]
    /\ UNCHANGED <<ctl, gf, dl, cl, ex>>

\* The callback of filepath.WalkDir on the next entry: an error (of the
\* walk, os.Open, d.Info or CountLines) ends the walk; a directory is
\* passed over; a file is counted
AnalyzeWalk ==
    /\ az.pc = "walk"
    /\ az.idx <= Len(az.tree)
    /\ \E failed \in BOOLEAN :
         LET e == az.tree[az.idx]
         IN  az' = IF failed THEN [az EXCEPT !.pc = "err"]
                   ELSE IF e.isDir THEN [az EXCEPT !.idx = @ + 1]
                   ELSE [az EXCEPT
                           !.idx = @ + 1,
                           !.totalDirSize = @ + e.size,
                           !.totalLines = @ + e.lines,
                           !.totalFiles = @ + 1,
                           !.linesByLanguage =
                               IF e.ext = "" THEN @
                               ELSE AddLines(@, LanguageOf(e.ext), e.lines)]
    /\ UNCHANGED <<ctl, gf, dl, cl, ex>>

\* WalkDir returned nil: the command sends analysisDoneMsg
AnalyzeReturn ==
    /\ az.pc = "walk"
    /\ az.idx > Len(az.tree)
    /\ az' = [az EXCEPT !.pc = "done"]
    /\ UNCHANGED <<ctl, gf, dl, cl, ex>>

InitAnalyze ==
    /\ az \in { AzCall(t) : t \in Trees }
    /\ m = initialModel(Flags("", "", "", "", ""))
    /\ cmds = {}
    /\ proc = "running"
    /\ fs = Dir({}, {})
    /\ remove = FALSE
    /\ hist = HistInit
    /\ gf = GfIdle
    /\ dl = DlIdle
    /\ cl = ClIdle
    /\ ex = ExIdle

NextAnalyze == AnalyzeWalk \/ AnalyzeReturn

SpecAnalyze == InitAnalyze /\ [][NextAnalyze]_vars

\* The walk has just counted the file e
Counted(e) ==
    /\ az.pc = "walk" /\ az'.pc = "walk"
    /\ az'.idx = az.idx + 1
    /\ e = az.tree[az.idx]
    /\ ~e.isDir

\* C17: the step of the walk on a file whose extension is not a key of the
\* extension-to-language table adds the file's lines to the total lines, one
\* to the total files and its size to the total size, and leaves the bucket
\* of every language of the table as it was.
C17_UnknownExtensionInTotalsOnly ==
    [][ \A e \in Entries :
          (Counted(e) /\ ExtToLang(e.ext) = "")
              => /\ az'.totalLines = az.totalLines + e.lines
                 /\ az'.totalFiles = az.totalFiles + 1
                 /\ az'.totalDirSize = az.totalDirSize + e.size
                 /\ \A l \in Languages :
                        az'.linesByLanguage[l] = az.linesByLanguage[l] ]_vars

\* The result for a directory with a .js file and a .css file of two lines
\* each: four lines in two files, two of the lines under JavaScript, two
\* under "Other"
C17_Witness ==
    /\ az.pc = "done"
    /\ az.tree = <<Entry(FALSE, ".js", 2), Entry(FALSE, ".css", 2)>>
    /\ az.totalLines = 4 /\ az.totalFiles = 2 /\ az.totalDirSize = 32
    /\ az.linesByLanguage["JavaScript"] = 2
    /\ az.linesByLanguage["Other"] = 2
    /\ \A l \in Languages \ {"JavaScript"} : az.linesByLanguage[l] = NoKey

-----------------------------------------------------------------------------
(* Claims about errors in the pipeline controller (Spec, SpecUpdate) *)

\* C18 as claimed: once an error is recorded in m.err, no later step
\* replaces it: m.err keeps the first error that arrived.
C18_FirstErrorKept ==
    [][ m.err # NoErr => m'.err = m.err ]_vars


\* C19 as claimed: once an error is recorded, no later step changes the
\* progress counters (existence count, download count, cache-hit count,
\* archive sizes), the result slots or the state.
C19_NothingCountedAfterError ==
    [][ m.err # NoErr
          => /\ m'.existingReleasesCount = m.existingReleasesCount
             /\ m'.downloadProgress = m.downloadProgress
             /\ m'.downloadCacheCount = m.downloadCacheCount
             /\ m'.tarSize = m.tarSize
             /\ m'.data.analysis = m.data.analysis
             /\ m'.state = m.state ]_vars


\* The command that returns fatalErr{} runs in a goroutine of its own and
\* the event loop handles every message sent to it: a fatalErr in flight
\* is handled at last
SpecLive == Spec /\ WF_vars(FatalErr)

\* C20: every error recorded before Summary is followed at last by the end
\* of the process with status 1, unless the user quits first; the process
\* exits in the step that handles fatalErr, a later step than the one that
\* recorded the error, which changes nothing of the model: the view of the
\* error is rendered in between.
C20_ErrorThenExit ==
    /\ [][ proc' = "exit1"
             => /\ m.err # NoErr
                /\ FatalErrCmd \in cmds
                /\ m' = m ]_vars
    /\ [][ m'.err # m.err => proc' = "running" ]_vars
    /\ (m.err # NoErr /\ m.state < StateSummary) ~> (proc \in {"exit1", "quit"})

\* The process has exited with status 1 on a failed download
C20_Witness ==
    /\ proc = "exit1"
    /\ m.state = StateDownloadExtract
    /\ m.err.kind = "download"

-----------------------------------------------------------------------------
(* Claims about the validation of the inputs (Spec) *)

\* C21 as claimed: the controller is past Init only with a repository id
\* that holds exactly one "/" and with non-empty `from` and `to`, whether
\* they came from the flags or from the text inputs.
C21_CheckingOnlyWithValidInputs ==
    m.state >= StateChecking
        => /\ CountSlash(m.data.ghRepo) = 1
           /\ m.data.firstRelease # ""
           /\ m.data.secondRelease # ""


\* The errors of the validation on submit
ValidationErrors == {"repo format", "base release", "release to compare"}

\* C22 as claimed: while a validation error is the recorded error the
\* controller is in Init and no existence check is in flight, whatever key
\* presses and messages arrive before the process exits.
C22_NoRunAfterValidationError ==
    m.err.kind \in ValidationErrors
        => /\ m.state = StateInit
           /\ \A c \in cmds : c.op # "exists"

-----------------------------------------------------------------------------
(* End to end on a repository of five releases (SpecFive) *)

\* The listing as the hosting API serves it: newest first, or with the two
\* releases of the first page the other way round
FiveListings ==
    LET c == Chronological
    IN  { <<c[5], c[4], c[3], c[2], c[1]>>, <<c[4], c[5], c[3], c[2], c[1]>> }

\* -repo o/r -token tok -from v1 -to v3: the pattern is asked for
PatternAsked == Flags("o/r", "tok", "v1", "v3", "")

\* The extraction root is empty, or holds v2 extracted by an earlier run
InitFive ==
    /\ m = initialModel(PatternAsked)
    /\ fs \in { Dir({}, {}), Dir({"v2"}, {"v2"}) }
    /\ remove = FALSE
    /\ cmds = {Cmd("init", 0, "")}
    /\ proc = "running"
    /\ hist = HistInit
    /\ gf = GfIdle
    /\ dl = DlIdle
    /\ az = AzIdle
    /\ cl = ClIdle
    /\ ex = ExIdle

\* The end of the range fetch on that repository
FetchDoneFive ==
    /\ proc = "running"
    /\ \E c \in cmds :
         /\ c.op = "fetch"
         /\ \E listing \in FiveListings, failed \in BOOLEAN :
              LET res == GetGitHubReleases(listing, m.data.firstRelease,
                                           m.data.secondRelease, m.data.ignoreRegex)
                  r == IF res.kind = "err"
                       THEN UpdateErrMsg(m, Err("regexp", "", ""))
                       ELSE IF failed
                       THEN UpdateErrMsg(m, Err("api", "", ""))
                       ELSE UpdateReleases(m, res.releases)
              IN  /\ failed \/ res.kind # "loop"
                  /\ Handle(c, r)
                  /\ hist' = Logged(c, res.kind = "ok" /\ ~failed, r)
    /\ UNCHANGED <<proc, fs, remove, gf, dl, az, cl, ex>>

NextFive ==
    \/ InitMsg \/ KeySubmit \/ KeyFocus \/ KeyQuit \/ FatalErr
    \/ ExistsDone \/ FetchDoneFive \/ DownloadStart \/ DownloadFinish \/ AnalyzeDone

SpecFive == InitFive /\ [][NextFive]_vars


\* A run on the five releases ended in Summary, without exclusion pattern
\* and without any failure
FiveDone ==
    /\ m.state = StateSummary
    /\ m.err = NoErr
    /\ m.data.ignoreRegex = ""

\* C23 as claimed: the final report holds the five releases in
\* chronological order (oldest first), and each entry after the oldest shows
\* its total lines minus the total lines of its chronological predecessor.
C23_ReportOldestFirst ==
    FiveDone
        => /\ Len(m.list) = 5
           /\ \A i \in 1..5 :
                /\ m.list[i].result.releaseTag = Chronological[i].tag
                /\ i > 1
                     => /\ m.list[i].previous # 0
                        /\ DiffWithPrevious(m.list, i) =
                             LinesOf(Chronological[i].tag)
                                 - LinesOf(Chronological[i - 1].tag)

\* C23 as amended: the final report holds exactly the five releases, newest
\* first (the i-th entry is the i-th newest); each entry but the oldest
\* shows its total lines minus the total lines of its chronological
\* predecessor, which is the next entry of the report; the oldest, last in
\* the report, shows no delta; the newest also shows its total lines minus
\* those of the oldest.
C23_ReportNewestFirst ==
    FiveDone
        => /\ Len(m.list) = 5
           /\ \A i \in 1..5 :
                /\ m.list[i].result.releaseTag = Chronological[6 - i].tag
                /\ m.list[i].result.totalLines = LinesOf(Chronological[6 - i].tag)
                /\ i < 5
                     => /\ m.list[i].previous = i + 1
                        /\ DiffWithPrevious(m.list, i) =
                             LinesOf(Chronological[6 - i].tag)
                                 - LinesOf(Chronological[5 - i].tag)
                /\ i = 5 => m.list[i].previous = 0
           /\ m.list[1].next = 0
           /\ DiffWithFirst(m.list, 1) = LinesOf("v3") - LinesOf("v1")

\* The report of a run whose analyses arrived oldest release first, v2 being
\* a cache hit
C23_Witness ==
    /\ FiveDone
    /\ hist.filled = <<5, 4, 3, 2, 1>>
    /\ m.downloadCacheCount = 1
    /\ DiffWithPrevious(m.list, 2) = LinesOf("v2.2") - LinesOf("v2.1")

-----------------------------------------------------------------------------
(* Claims about the end of the analysis stage (Spec) *)

\* C24: the step that enters Summary empties the extraction root when
\* -remove is set and leaves it as it is when -remove is not set; a step
\* that records the error of a failed removal stays in Analyzing, builds no
\* list and leaves the root in place, and from then on the controller is
\* never in Summary.
C24_RemoveBeforeSummary ==
    [][ /\ (m.state = StateAnalyzing /\ m'.state = StateSummary)
            => IF remove THEN fs' = Dir({}, {}) ELSE fs' = fs /\ fs.dirs # {}
        /\ m'.err.kind = "remove"
            => /\ remove
               /\ m'.state = StateAnalyzing
               /\ m'.list = Nil
               /\ fs' = fs ]_vars

\* Summary of three releases with -remove: the extraction root is gone
C24_Witness ==
    /\ m.state = StateSummary
    /\ remove
    /\ Len(m.list) = 3
    /\ fs = Dir({}, {})

-----------------------------------------------------------------------------
(* CountLines: the line counter (SpecCount) *)

\* The bytes of a stream: the line break and another byte; Zero is the
\* byte of a freshly made buffer
LineBreak == "\n"
Zero == "\\0"
Bytes == {LineBreak, "x"}

\* len(buf); stands for bufio.MaxScanTokenSize (64 KiB in the code)
BufSize == 2
\* Longest stream
MaxContent == 4
Contents == UNION { [1..n -> Bytes] : n \in 0..MaxContent }

\* bytes.IndexByte(buf[pos:], lineBreak), pos 0-based; -1: not found
IndexByte(buf, pos) ==
    LET hits == {k \in (pos + 1)..Len(buf) : buf[k] = LineBreak}
    IN  IF hits = {} THEN 0 - 1
        ELSE (CHOOSE k \in hits : \A j \in hits : k <= j) - (pos + 1)

\* Mutant of CountBuf: the search stops at the bytes just read,
\* buf[buffPosition:bufferSize]
RECURSIVE CountBuf_Bounded(_, _, _, _)
CountBuf_Bounded(buf, bufferSize, buffPosition, count) ==
    LET i == IndexByte(SubSeq(buf, 1, bufferSize), buffPosition)
    IN  IF i = 0 - 1 \/ bufferSize = buffPosition THEN count
        ELSE CountBuf_Bounded(buf, bufferSize, buffPosition + i + 1, count + 1)

\* The inner `for` of CountLines on the buffer after a read of bufferSize
\* bytes: the count after it
RECURSIVE CountBuf(_, _, _, _)
CountBuf(buf, bufferSize, buffPosition, count) ==
    LET i == IndexByte(buf, buffPosition)
    IN  IF i = 0 - 1 \/ bufferSize = buffPosition THEN count
        ELSE CountBuf(buf, bufferSize, buffPosition + i + 1, count + 1)

ClCall(content) ==
    [ pc |-> "read", content |-> content, rest |-> content,
      buf |-> [k \in 1..BufSize |-> Zero], count |-> 0, short |-> FALSE ]

\* reader.Read(buf) puts the next n bytes of the stream at the start of buf
Filled(buf, rest, n) ==
    [k \in 1..Len(buf) |-> IF k <= n THEN rest[k] ELSE buf[k]]

\* One iteration of the outer `for`: reader.Read(buf) returns n bytes (at
\* least one while the stream has bytes left) with a nil error, with io.EOF
\* (only once the stream is used up) or with another error; then the inner
\* loop counts. short: a read returned fewer bytes than one before it
CountRead ==
    /\ cl.pc = "read"
    /\ \E n \in 0..Min(BufSize, Len(cl.rest)), outcome \in {"nil", "eof", "err"} :
         /\ Len(cl.rest) > 0 => n > 0
         /\ outcome = "eof" => n = Len(cl.rest)
         /\ outcome = "nil" => n > 0
         /\ cl' = IF outcome = "err"
                  THEN [cl EXCEPT !.pc = "err", !.count = 0]
                  ELSE LET buf == Filled(cl.buf, cl.rest, n)
                       IN  [cl EXCEPT
                              !.pc = IF outcome = "eof" THEN "done" ELSE "read",
                              !.buf = buf,
                              !.rest = SubSeq(cl.rest, n + 1, Len(cl.rest)),
                              !.count = CountBuf(buf, n, 0, cl.count),
                              !.short = @ \/ \E k \in (n + 1)..BufSize :
                                                cl.buf[k] # Zero]
    /\ UNCHANGED <<ctl, gf, dl, az, ex>>

InitCount ==
    /\ cl \in { ClCall(c) : c \in Contents }
    /\ ex = ExIdle
    /\ m = initialModel(Flags("", "", "", "", ""))
    /\ cmds = {}
    /\ proc = "running"
    /\ fs = Dir({}, {})
    /\ remove = FALSE
    /\ hist = HistInit
    /\ gf = GfIdle
    /\ dl = DlIdle
    /\ az = AzIdle

NextCount == CountRead

SpecCount == InitCount /\ [][NextCount]_vars

\* The number of line breaks in a stream
RECURSIVE Newlines(_)
Newlines(content) ==
    IF content = <<>> THEN 0
    ELSE (IF Head(content) = LineBreak THEN 1 ELSE 0) + Newlines(Tail(content))

\* C25 as claimed: CountLines returns the number of line breaks of the
\* stream, for every content and every way the reader splits it into reads,
\* short reads into the reused buffer included.
C25_CountsNewlines ==
    cl.pc = "done" => cl.count = Newlines(cl.content)

-----------------------------------------------------------------------------
(* Claims about the cache of the downloader (Spec) *)

\* C26 as claimed: a call of the downloader reports a cache hit only for a
\* tag whose archive an earlier download has extracted into the root; a
\* directory left by a download that failed makes no cache hit.
C26_CacheHitOnlyAfterExtraction ==
    [][ m'.downloadCacheCount > m.downloadCacheCount
          => \E c \in cmds \ cmds' :
                 c.op = "download" /\ c.release \in fs.extracted ]_vars

-----------------------------------------------------------------------------
(* Claims about the range fetcher on equal boundaries (SpecFetchFair) *)

\* `from` and `to` are the same tag, listed and not excluded
SameBoundary ==
    /\ gf.from = gf.to
    /\ BothListed
    /\ ~(gf.regex # "" /\ (~Compiles(gf.regex) \/ MatchString(gf.regex, gf.from)))

\* C27 as claimed: a call with `from` equal to `to`, the tag being listed
\* and not excluded, ends (with its result, or with the errMsg of a failed
\* request), and its result is exactly the one release of that tag.
C27_SameTagReturnsOne ==
    /\ []((Returned /\ SameBoundary)
            => Len(gf.releases) = 1 /\ gf.releases[1].tag = gf.from)
    /\ (gf.pc = "call" /\ SameBoundary) ~> Ended

-----------------------------------------------------------------------------
(* Claims about the result sequence (Spec) *)

\* C28 as claimed: in DownloadExtract and in Analyzing the result sequence
\* m.data.analysis has one slot per release of the fetched sequence.
C28_SlotsAllocatedWithReleases ==
    m.state \in {StateDownloadExtract, StateAnalyzing}
        => Len(m.data.analysis) = Len(m.data.releases)

\* An analysis completion message has been handled
SomeAnalysisDone == \E c \in hist.done : c.op = "analyze"

\* C28 as amended: the result sequence is empty until the first analysis
\* completion message is handled (so all through DownloadExtract and at the
\* start of Analyzing), and has one slot per release of the fetched
\* sequence from then on.
C28_SlotsAllocatedOnFirstResult ==
    /\ m.state <= StateDownloadExtract => ~SomeAnalysisDone
    /\ Len(m.data.analysis) =
         IF SomeAnalysisDone THEN Len(m.data.releases) ELSE 0

\* Analyzing, one of three analyses handled: three slots, two of them empty
C28_Witness ==
    /\ m.state = StateAnalyzing
    /\ Len(hist.filled) = 1
    /\ Len(m.data.releases) = 3
    /\ Len(m.data.analysis) = 3
    /\ Cardinality({i \in 1..3 : m.data.analysis[i] = ZeroAnalysis}) = 2


\* A sequence of releases holds one tagged `from` and one tagged `to`
HoldsBoth(releases, from, to) ==
    /\ \E i \in 1..Len(releases) : releases[i].tag = from
    /\ \E i \in 1..Len(releases) : releases[i].tag = to

\* C29: a sequence returned by the range fetcher, and so the sequence the
\* controller gets from it, holds the release tagged `from` and the release
\* tagged `to` and is not empty; the controller never records 'no releases
\* found'.
C29_FetchedHoldsBothBoundaries ==
    /\ Returned => /\ HoldsBoth(gf.releases, gf.from, gf.to)
                   /\ Len(gf.releases) > 0
    /\ m.state >= StateDownloadExtract
         => /\ HoldsBoth(m.data.releases, m.data.firstRelease, m.data.secondRelease)
            /\ Len(m.data.releases) > 0
    /\ m.err.kind # "no releases found"

\* DownloadExtract on a fetched sequence of the two boundary releases
C29_Witness ==
    /\ m.state = StateDownloadExtract
    /\ Len(m.data.releases) = 2
    /\ m.data.releases[1].tag = "v3"
    /\ m.data.releases[2].tag = "v1"
    /\ m.err = NoErr


\* C30: in the final report the archive size of the i-th entry is the size
\* carried by the completion message of the download of the i-th release
\* when that download was not a cache hit, and 0 when it was, whatever the
\* order of the completion messages.
C30_ArchiveSizeFromDownload ==
    m.state = StateSummary
        => \A i \in 1..Len(m.list) :
             LET tag == m.list[i].result.releaseTag
             IN  IF Cmd("download", i, tag) \in hist.done
                 THEN m.list[i].result.tarSize = 0
                 ELSE /\ Cmd("downloading", i, tag) \in hist.done
                      /\ m.list[i].result.tarSize = TarBytes(tag)

\* The report of v3, v2, v1 with v2 a cache hit, the analyses handled
\* oldest release first
C30_Witness ==
    /\ m.state = StateSummary
    /\ hist.filled = <<3, 2, 1>>
    /\ Len(m.list) = 3
    /\ m.list[1].result.tarSize = TarBytes("v3")
    /\ m.list[2].result.releaseTag = "v2" /\ m.list[2].result.tarSize = 0
    /\ m.list[3].result.tarSize = TarBytes("v1")

-----------------------------------------------------------------------------
(* The end of the scan *)

\* The releases the scan has gone through so far: the pages before the
\* current one, and the releases of the current page before gf.idx
RECURSIVE PagesBefore(_, _)
PagesBefore(listing, page) ==
    IF page <= 1 THEN <<>>
    ELSE PagesBefore(listing, page - 1) \o fetchReleases(listing, page - 1)

GoneThrough ==
    IF gf.pc \in {"scan", "done"}
    THEN PagesBefore(gf.listing, gf.page) \o SubSeq(gf.fetched, 1, gf.idx - 1)
    ELSE PagesBefore(gf.listing, gf.page)

\* The scan has seen a release with this tag that it did not skip
Observed(tag) ==
    \E i \in 1..Len(GoneThrough) :
        Scanned(GoneThrough[i], gf.regex) /\ GoneThrough[i].tag = tag

\* C31: from the moment the scan has observed both boundary tags (two
\* different tags), no step of the fetcher appends a release to the result
\* or requests a page.
C31_NothingAfterBothFound ==
    [][ (gf.pc # "idle" /\ gf.from # gf.to /\ Observed(gf.from) /\ Observed(gf.to))
        => (gf'.releases = gf.releases /\ gf'.requests = gf.requests) ]_vars

\* A call that has returned after finding its second boundary in the middle
\* of a page: a release it could have collected follows the boundary on the
\* page and is not in the result
C31_Witness ==
    /\ Returned
    /\ gf.from # gf.to
    /\ gf.page = 2
    /\ \E i \in 1..(Len(gf.fetched) - 1) :
          /\ gf.fetched[i] = gf.releases[Len(gf.releases)]
          /\ Scanned(gf.fetched[i + 1], gf.regex)
          /\ \A j \in 1..Len(gf.releases) : gf.releases[j] # gf.fetched[i + 1]

-----------------------------------------------------------------------------
(* The controller with the range fetcher step by step (SpecPattern) *)

\* Everything is given on the command line; the exclusion pattern is any of
\* the model's, the one that does not compile included
InitPattern ==
    /\ \E re \in Regexes : m = initialModel(Flags("o/r", "tok", "v1", "v3", re))
    /\ cmds = {Cmd("init", 0, "")}
    /\ proc = "running"
    /\ fs = Dir({}, {})
    /\ remove = FALSE
    /\ hist = HistInit
    /\ gf = GfIdle
    /\ dl = DlIdle
    /\ az = AzIdle
    /\ cl = ClIdle
    /\ ex = ExIdle

\* GetGitHubReleases is called with the controller's inputs, against the
\* listing the API holds
FetchBegin ==
    /\ gf.pc = "idle"
    /\ \E c \in cmds : c.op = "fetch"
    /\ \E listing \in CtlListings :
         gf' = GfCall(listing, m.data.firstRelease, m.data.secondRelease,
                      m.data.ignoreRegex)
    /\ UNCHANGED <<ctl, dl, az, cl, ex>>

\* The command sends its message, and Update handles it: errMsg (of
\* regexp.Compile when no request was made, else of the failed request) or
\* the releases. Of the call, the number of requests is kept.
FetchEnd ==
    /\ proc = "running"
    /\ gf.pc \in {"done", "err"}
    /\ \E c \in cmds :
         /\ c.op = "fetch"
         /\ LET r == IF gf.pc = "done" THEN UpdateReleases(m, gf.releases)
                     ELSE IF gf.requests = 0
                     THEN UpdateErrMsg(m, Err("regexp", "", ""))
                     ELSE UpdateErrMsg(m, Err("api", "", ""))
            IN  /\ Handle(c, r)
                /\ hist' = Logged(c, gf.pc = "done", r)
    /\ gf' = [pc |-> "sent", requests |-> gf.requests]
    /\ UNCHANGED <<proc, fs, remove, dl, az, cl, ex>>

NextPattern ==
    \/ InitMsg \/ KeyQuit \/ FatalErr \/ ExistsDone
    \/ FetchBegin \/ FetchCompile \/ FetchPage \/ FetchScan \/ FetchPageEnd
    \/ FetchEnd
    \/ DownloadStart \/ DownloadFinish \/ AnalyzeDone

SpecPattern == InitPattern /\ [][NextPattern]_vars

\* C33: with an exclusion pattern that does not compile, the range fetch
\* makes no request for a page, the message it sends is the error of the
\* compilation, and the controller is never in DownloadExtract or beyond.
C33_BadPatternNoRequest ==
    /\ [](m.data.ignoreRegex = BadRegex
            => /\ m.state < StateDownloadExtract
               /\ gf.pc \in {"idle", "call", "err", "sent"}
               /\ gf.pc # "idle" => gf.requests = 0)
    /\ [][ (m.data.ignoreRegex = BadRegex /\ gf'.pc = "sent" /\ gf.pc # "sent")
             => (m'.err = Err("regexp", "", "") /\ m'.state = StateFetching) ]_vars

\* The error of the compilation recorded in Fetching, no request made
C33_Witness ==
    /\ m.data.ignoreRegex = BadRegex
    /\ gf.pc = "sent"
    /\ gf.requests = 0
    /\ m.state = StateFetching
    /\ m.err = Err("regexp", "", "")
    /\ hist.fetches = 1

-----------------------------------------------------------------------------
(* Progress of the controller (SpecDelivers) *)

\* The end, or the next step, of some launched operation
Delivers ==
    \/ InitMsg \/ ExistsDone
    \/ FetchBegin \/ FetchCompile \/ FetchPage \/ FetchScan \/ FetchPageEnd
    \/ FetchEnd
    \/ DownloadStart \/ DownloadFinish \/ AnalyzeDone

\* Every command runs in a goroutine of its own and sends its message when
\* its operation ends, and the event loop handles the messages sent to it:
\* as long as an operation is in flight, one of them goes on
SpecDelivers == SpecPattern /\ WF_vars(Delivers)

\* The fetched releases all have a tag name, not empty, and no two the same
DistinctTags ==
    /\ \A i \in 1..Len(m.data.releases) : m.data.releases[i].tag \notin {NilTag, ""}
    /\ \A i, j \in 1..Len(m.data.releases) :
          i # j => m.data.releases[i].tag # m.data.releases[j].tag

\* The range fetch is past the last page of the listing with a boundary
\* still to find: it goes on requesting empty pages and delivers nothing
\* unless a request fails
FetchRunsOn ==
    /\ gf.pc \in {"fetch", "scan"}
    /\ gf.page > NumPages(gf.listing)

\* The controller waits for completion messages
Waiting ==
    m.state \in {StateChecking, StateFetching, StateDownloadExtract, StateAnalyzing}

\* C32: when every launched operation delivers its message (the range
\* fetch does not run on past its listing) and the fetched releases have
\* distinct non-empty tags, a controller that waits in Checking, Fetching,
\* DownloadExtract or Analyzing comes to Summary or to a recorded error,
\* unless the user ends the program first.
C32_NeverWaitsForever ==
    [](DistinctTags /\ ~FetchRunsOn)
        => (Waiting ~> (m.state = StateSummary \/ m.err # NoErr \/ proc # "running"))

\* Summary reached over all four kinds of operation, for three releases
C32_Witness ==
    /\ m.state = StateSummary
    /\ m.err = NoErr
    /\ DistinctTags
    /\ Len(m.data.releases) = 3
    /\ \E c \in hist.done : c.op = "exists"
    /\ \E c \in hist.done : c.op = "fetch"
    /\ \E c \in hist.done : c.op = "downloading"
    /\ \E c \in hist.done : c.op = "analyze"

-----------------------------------------------------------------------------
(* The two boundaries are interchangeable (SpecFetch) *)

\* C34: for two different boundary tags, the fetcher called with `from` and
\* `to` swapped delivers the same as the call itself: the same outcome and
\* the same releases in the same order, for every listing and pattern; the
\* result a call returns step by step is the result of the swapped call.
C34_SwapSameOutput ==
    (gf.pc # "idle" /\ gf.from # gf.to)
        => /\ GetGitHubReleases(gf.listing, gf.from, gf.to, gf.regex)
                = GetGitHubReleases(gf.listing, gf.to, gf.from, gf.regex)
           /\ Returned
                => gf.releases =
                     GetGitHubReleases(gf.listing, gf.to, gf.from, gf.regex).releases

\* A call from the newer to the older tag that returned three releases,
\* one release of the listing being excluded by the pattern
C34_Witness ==
    /\ Returned
    /\ gf.from = "v3" /\ gf.to = "v1"
    /\ gf.regex = "rc"
    /\ Len(gf.releases) = 3
    /\ \E i \in 1..Len(gf.listing) : gf.listing[i].tag = "v2-rc"

-----------------------------------------------------------------------------
(* The deltas of the report (Spec) *)

\* ListItem.Title writes the delta against the previous release
ShowsDiffWithPrevious(items, i) == items[i].previous # 0

\* ListItem.Title writes " • Total: " and the delta against the first release
ShowsDiffWithFirst(items, i) == items[i].previous # 0 /\ items[i].next = 0

\* The creation time of the i-th fetched release, which the i-th entry of
\* the report is about
CreatedAt(i) == m.data.releases[i].created

\* The API served the releases newest first, no two created at the same time
ServedNewestFirst ==
    \A i \in 1..(Len(m.data.releases) - 1) : CreatedAt(i) > CreatedAt(i + 1)

\* The entry of the release created last before the release of entry i
Predecessor(i) ==
    CHOOSE j \in 1..Len(m.list) :
        /\ CreatedAt(j) < CreatedAt(i)
        /\ \A k \in 1..Len(m.list) :
              CreatedAt(k) < CreatedAt(i) => CreatedAt(k) <= CreatedAt(j)

\* C35: in a report of two or more entries about releases the API served
\* newest first, the entry of the oldest release shows no delta; every other
\* entry shows its total lines minus those of the release created just
\* before its own; the entry of the newest release, and no other, also
\* shows its total lines minus those of the oldest release.
C35_DeltasAlongChronology ==
    (m.state = StateSummary /\ Len(m.list) >= 2 /\ ServedNewestFirst)
        => \A i \in 1..Len(m.list) :
             LET oldest == \A j \in 1..Len(m.list) : CreatedAt(j) >= CreatedAt(i)
                 newest == \A j \in 1..Len(m.list) : CreatedAt(j) <= CreatedAt(i)
             IN  /\ oldest <=> ~ShowsDiffWithPrevious(m.list, i)
                 /\ ~oldest
                      => DiffWithPrevious(m.list, i) =
                           m.list[i].result.totalLines
                             - m.list[Predecessor(i)].result.totalLines
                 /\ newest <=> ShowsDiffWithFirst(m.list, i)
                 /\ newest
                      => \E j \in 1..Len(m.list) :
                           /\ \A k \in 1..Len(m.list) : CreatedAt(k) >= CreatedAt(j)
                           /\ DiffWithFirst(m.list, i) =
                                m.list[i].result.totalLines
                                  - m.list[j].result.totalLines

\* A report of three entries whose middle entry shows a delta and no total,
\* and whose first entry shows two different deltas
C35_Witness ==
    /\ m.state = StateSummary
    /\ Len(m.list) = 3
    /\ ServedNewestFirst
    /\ ShowsDiffWithPrevious(m.list, 2) /\ ~ShowsDiffWithFirst(m.list, 2)
    /\ DiffWithPrevious(m.list, 2) = LinesOf("v2") - LinesOf("v1")
    /\ DiffWithFirst(m.list, 1) = LinesOf("v3") - LinesOf("v1")
    /\ DiffWithFirst(m.list, 1) # DiffWithPrevious(m.list, 1)

-----------------------------------------------------------------------------
(* DoesGitHubReleaseExist, request and response (SpecExists) *)

\* The status of the API's response; NoResponse: the request itself failed
StatusOK == 200
StatusForbidden == 403
StatusNotFound == 404
NoResponse == 0

\* What the API may answer about a tag that is there, or is not
Responses(present) ==
    IF present THEN {StatusOK, StatusForbidden, NoResponse}
    ELSE {StatusNotFound, StatusForbidden, NoResponse}

\* The message of the command: gitReleaseExistsMsg{exists, release} or
\* errMsg(err)
ExistsMsg(exists, release) ==
    [kind |-> "gitReleaseExistsMsg", exists |-> exists, release |-> release,
     err |-> NoErr]
ErrMsg(e) == [kind |-> "errMsg", exists |-> FALSE, release |-> "", err |-> e]
NoMsg == [kind |-> "none", exists |-> FALSE, release |-> "", err |-> NoErr]

\* The checkers of the repository: the one on the octokit client and the
\* one on plain HTTP
Checkers == {"octokit", "http"}

ExCall(impl, ownerRepo, token, release, present) ==
    [ pc |-> "call", impl |-> impl, ownerRepo |-> ownerRepo, token |-> token,
      release |-> release, present |-> present, status |-> NoResponse,
      msg |-> NoMsg ]

\* Up to the request. octokit: NewApiClient may fail, and an ownerRepo
\* without "/" is malformed; HTTP: http.NewRequest may fail
ExistsRequest ==
    /\ ex.pc = "call"
    /\ \E ok \in BOOLEAN :
         ex' = IF ~ok
               THEN [ex EXCEPT !.pc = "done", !.msg = ErrMsg(Err("client", "", ""))]
               ELSE IF ex.impl = "octokit" /\ CountSlash(ex.ownerRepo) = 0
               THEN [ex EXCEPT !.pc = "done",
                               !.msg = ErrMsg(Err("malformed owner/repo", "",
                                                  ex.ownerRepo))]
               ELSE [ex EXCEPT !.pc = "sent"]
    /\ UNCHANGED <<ctl, gf, dl, az, cl>>

\* The message sent for the outcome of the request. octokit: any error of
\* Get is errMsg(err), else exists=true; HTTP: a failed request is errMsg, a
\* 403 is errMsg("forbidden, please check your token or provide one"),
\* every other status is gitReleaseExistsMsg{status == 200}
ExistsAnswer(impl, status, release) ==
    IF impl = "octokit"
    THEN IF status = StatusOK THEN ExistsMsg(TRUE, release)
         ELSE ErrMsg(Err("api", "", ""))
    ELSE IF status = NoResponse THEN ErrMsg(Err("transport", "", ""))
         ELSE IF status = StatusForbidden THEN ErrMsg(Err("forbidden", "", ""))
         ELSE ExistsMsg(status = StatusOK, release)

\* The request ends and the command returns its message
ExistsResponse ==
    /\ ex.pc = "sent"
    /\ \E status \in Responses(ex.present) :
         ex' = [ex EXCEPT !.pc = "done", !.status = status,
                          !.msg = ExistsAnswer(ex.impl, status, ex.release)]
    /\ UNCHANGED <<ctl, gf, dl, az, cl>>

InitExists ==
    /\ ex \in { ExCall(i, r, t, rel, p) :
                  i \in Checkers, r \in {"o/r", "a/b/c", "bad"}, t \in {"", "tok"},
                  rel \in {"v1", "v3"}, p \in BOOLEAN }
    /\ m = initialModel(Flags("", "", "", "", ""))
    /\ cmds = {}
    /\ proc = "running"
    /\ fs = Dir({}, {})
    /\ remove = FALSE
    /\ hist = HistInit
    /\ gf = GfIdle
    /\ dl = DlIdle
    /\ az = AzIdle
    /\ cl = ClIdle

NextExists == ExistsRequest \/ ExistsResponse

SpecExists == InitExists /\ [][NextExists]_vars

\* C36 as claimed: an existence check answered with 403 sends the
\* 'forbidden, check your token' error, and one answered with 404 (the tag
\* is absent) sends exists=false for its tag, two different messages.
C36_ForbiddenIsNotMissing ==
    (ex.pc = "done" /\ ex.msg.err.kind \notin {"client", "malformed owner/repo"})
        => /\ ex.status = StatusForbidden
                => ex.msg = ErrMsg(Err("forbidden", "", ""))
           /\ ex.status = StatusNotFound
                => ex.msg = ExistsMsg(FALSE, ex.release)

-----------------------------------------------------------------------------
(* Files without extension (SpecAnalyze) *)

\* C37: the step of the walk on a regular file without extension adds the
\* file's lines to the total lines, one to the total files and its size to
\* the total size, and leaves linesByLanguage as it was: no bucket gains
\* lines and no key is added, "Other" included.
C37_NoExtensionInTotalsOnly ==
    [][ \A e \in Entries :
          (Counted(e) /\ e.ext = "")
              => /\ az'.totalLines = az.totalLines + e.lines
                 /\ az'.totalFiles = az.totalFiles + 1
                 /\ az'.totalDirSize = az.totalDirSize + e.size
                 /\ az'.linesByLanguage = az.linesByLanguage ]_vars

\* The result for a directory with a file without extension and a .ts file
\* of two lines each: four lines in two files, two of the lines under
\* TypeScript and no other key in the map
C37_Witness ==
    /\ az.pc = "done"
    /\ az.tree = <<Entry(FALSE, "", 2), Entry(FALSE, ".ts", 2)>>
    /\ az.totalLines = 4 /\ az.totalFiles = 2 /\ az.totalDirSize = 32
    /\ az.linesByLanguage["TypeScript"] = 2
    /\ \A b \in Buckets \ {"TypeScript"} : az.linesByLanguage[b] = NoKey

-----------------------------------------------------------------------------
(* The extraction root on the error paths (Spec) *)

\* The step takes a directory or an extracted release out of the root
Deletes == ~(fs.dirs \subseteq fs'.dirs /\ fs.extracted \subseteq fs'.extracted)

\* The directory of every release whose download has completed is in the
\* root
DownloadsInPlace ==
    \A c \in hist.done : c.op \in {"download", "downloading"} => c.release \in fs.dirs

\* C38: the root is deleted only by the step that completes the last
\* analysis, with -remove set, and that step enters Summary and records no
\* error; a step that records an error and the step that exits delete
\* nothing; so a run that has recorded an error short of Summary, or has
\* exited on it, still has the directories of its downloads, -remove or not.
C38_NoCleanupOnError ==
    /\ [][ Deletes
             => /\ remove
                /\ m.state = StateAnalyzing /\ m'.state = StateSummary
                /\ ~AreAllAnalysesDone(m.data.analysis)
                /\ AreAllAnalysesDone(m'.data.analysis)
                /\ m'.err = m.err ]_vars
    /\ [][ (m'.err # m.err \/ proc' = "exit1") => ~Deletes ]_vars
    /\ []((m.err # NoErr /\ m.state < StateSummary) => DownloadsInPlace)

\* A run with -remove that has exited on the error of an analysis, the
\* three release directories still in the root
C38_Witness ==
    /\ proc = "exit1"
    /\ remove
    /\ m.state = StateAnalyzing
    /\ m.err.kind = "analysis"
    /\ Len(m.data.releases) = 3
    /\ \A i \in 1..3 : m.data.releases[i].tag \in fs.dirs

-----------------------------------------------------------------------------
(* The per-language counts against the totals (SpecAnalyze) *)

\* The sum of the values of linesByLanguage (a key not in the map adds
\* nothing)
RECURSIVE SumBuckets(_, _)
SumBuckets(buckets, keys) ==
    IF keys = {} THEN 0
    ELSE LET k == CHOOSE x \in keys : TRUE
         IN  (IF buckets[k] = NoKey THEN 0 ELSE buckets[k])
               + SumBuckets(buckets, keys \ {k})

\* The lines of the files with an extension among the first n entries
RECURSIVE LinesWithExtension(_, _)
LinesWithExtension(tree, n) ==
    IF n = 0 THEN 0
    ELSE LinesWithExtension(tree, n - 1)
           + (IF ~tree[n].isDir /\ tree[n].ext # "" THEN tree[n].lines ELSE 0)

\* The lines of all files among the first n entries
RECURSIVE LinesOfFiles(_, _)
LinesOfFiles(tree, n) ==
    IF n = 0 THEN 0
    ELSE LinesOfFiles(tree, n - 1) + (IF ~tree[n].isDir THEN tree[n].lines ELSE 0)

\* C39: in every result the analyzer returns, the per-language line counts
\* add up to the lines of the files that have an extension, the total line
\* count is the lines of all files, and so the sum never exceeds the total.
C39_LanguagesSumToExtensionLines ==
    az.pc = "done"
        => /\ SumBuckets(az.linesByLanguage, Buckets)
                = LinesWithExtension(az.tree, Len(az.tree))
           /\ az.totalLines = LinesOfFiles(az.tree, Len(az.tree))
           /\ SumBuckets(az.linesByLanguage, Buckets) <= az.totalLines

\* A result whose sum over the languages is below the total: a .js file, a
\* .css file and a file without extension, two lines each
C39_Witness ==
    /\ az.pc = "done"
    /\ az.tree = <<Entry(FALSE, ".js", 2), Entry(FALSE, ".css", 2), Entry(FALSE, "", 2)>>
    /\ SumBuckets(az.linesByLanguage, Buckets) = 4
    /\ az.totalLines = 6

-----------------------------------------------------------------------------
(* The progress counters (Spec) *)

\* len(m.tarSize): the tags with a recorded archive size
RecordedSizes == {t \in DOMAIN m.tarSize : m.tarSize[t] # NoSize}

\* C40: in every reachable state the existence count is at most 2, the
\* download-completion count is at most the number of fetched releases, the
\* cache-hit count is at most the download-completion count, and the number
\* of recorded archive sizes is at most the download-completion count minus
\* the cache-hit count.
C40_CountersBounded ==
    /\ m.existingReleasesCount \in 0..2
    /\ m.downloadProgress \in 0..Len(m.data.releases)
    /\ m.downloadCacheCount \in 0..m.downloadProgress
    /\ Cardinality(RecordedSizes) <= m.downloadProgress - m.downloadCacheCount

\* Both releases confirmed, three downloads completed, one of them a cache
\* hit, two archive sizes recorded
C40_Witness ==
    /\ m.existingReleasesCount = 2
    /\ Len(m.data.releases) = 3
    /\ m.downloadProgress = 3
    /\ m.downloadCacheCount = 1
    /\ Cardinality(RecordedSizes) = 2

=============================================================================
